---- MODULE Spec2Model ----
(***************************************************************************)
(* Journal backlinks (JournalBacklinks) of sta-utils: the reference graph  *)
(* kept in document flags by update() and sync(), the reference scanner    *)
(* references(), and the render-time merge _mergeReferencedBy(); and the   *)
(* warp calculator, whose numbers are IEEE 754 doubles.                    *)
(*                                                                         *)
(* A JavaScript string is a sequence of one-character strings, so that     *)
(* the regular expression, startsWith, split, slice and join act on the    *)
(* characters as the code does.  A document flag object is a function      *)
(* whose DOMAIN is the set of keys that are present.                       *)
(***************************************************************************)
EXTENDS Integers, Sequences, FiniteSets, TLC

VARIABLES
    content,        \* document -> its stored rich text (text.content, system.description.value)
    flags,          \* document -> flags["sta-utils"]: keys "references", "referencedBy"
    rebuildOnSave,  \* world setting backlinksRebuildOnSave
    isGM,           \* game.user.isGM on this client
    op,             \* the operation that produced this state
    refText,        \* input of references(): a text
    refItems,       \* the pieces refText was written from
    refOut,         \* result of references(refText)
    mergeA,         \* inputs and result of _mergeReferencedBy(a, b)
    mergeB,
    mergeOut,
    element,        \* the sheet element backlinks are injected into: its
                    \* children of class "journal-backlinks", each a list of entries
    viewer,         \* game.user: the documents testUserPermission allows it,
                    \* and the documents on which the test throws
    render,         \* the last call of includeLinksFromRefs
    lit,            \* the numbers of the warp calculator's constants and literals
    calc,           \* the call of a warp calculator function in progress or returned
    runs,           \* the runs of update() in progress: where each is and what it holds
    startup,        \* the world setting lastSyncedVersion and the initial sync of the session
    dialog,         \* the warp calculator window and the promise of openWarpCalculator
    fatigue,        \* the actor's stress and Fatigued traits, and the hook calls in progress
    traits          \* a trait item, the tokens that refer to it, and the hook calls queued

vars == <<content, flags, rebuildOnSave, isGM, op,
          refText, refItems, refOut, mergeA, mergeB, mergeOut,
          element, viewer, render, lit, calc,
          runs, startup, dialog, fatigue, traits>>

graphVars == <<content, flags, rebuildOnSave, isGM, op>>
refVars == <<refText, refItems, refOut>>
mergeVars == <<mergeA, mergeB, mergeOut>>
renderVars == <<element, viewer, render>>
warpVars == <<lit, calc>>
raceVars == <<runs>>
\* the variables of the parts that follow the warp calculator
appVars == <<raceVars, startup, dialog, fatigue, traits>>

(***************************************************************************)
(* Strings                                                                 *)
(***************************************************************************)

NULL == "null"

EmptyStr == << >>

RECURSIVE Cat(_)
\* concatenation of a sequence of strings
Cat(ss) == IF ss = << >> THEN << >> ELSE Head(ss) \o Cat(Tail(ss))

\* String.prototype.startsWith
StartsWith(s, p) == Len(s) >= Len(p) /\ SubSeq(s, 1, Len(p)) = p

\* Array.prototype.includes
Includes(seq, x) == \E i \in 1..Len(seq) : seq[i] = x

RECURSIVE IndexFrom(_, _, _)
\* first index >= i of character c in s, 0 when there is none
IndexFrom(s, c, i) ==
    IF i > Len(s) THEN 0
    ELSE IF s[i] = c THEN i
    ELSE IndexFrom(s, c, i + 1)

RECURSIVE Split(_, _)
\* String.prototype.split(sep) for a one-character separator
Split(s, sep) ==
    LET k == IndexFrom(s, sep, 1)
    IN  IF k = 0 THEN <<s>>
        ELSE <<SubSeq(s, 1, k - 1)>> \o Split(SubSeq(s, k + 1, Len(s)), sep)

RECURSIVE Join(_, _)
\* Array.prototype.join(sep)
Join(parts, sep) ==
    IF parts = << >> THEN << >>
    ELSE IF Len(parts) = 1 THEN parts[1]
    ELSE parts[1] \o <<sep>> \o Join(Tail(parts), sep)

\* Array.prototype.slice(0, n)
Slice0(seq, n) == SubSeq(seq, 1, IF Len(seq) < n THEN Len(seq) ELSE n)

(***************************************************************************)
(* references(text): the regular expression /@(\w+)\[([^\]]+)\]/g          *)
(***************************************************************************)

Letters ==
    {"a","b","c","d","e","f","g","h","i","j","k","l","m","n","o","p","q","r",
     "s","t","u","v","w","x","y","z",
     "A","B","C","D","E","F","G","H","I","J","K","L","M","N","O","P","Q","R",
     "S","T","U","V","W","X","Y","Z"}

Digits == {"0","1","2","3","4","5","6","7","8","9"}

\* the class \w
WordChars == Letters \cup Digits \cup {"_"}

S_UUID == <<"U","U","I","D">>

RECURSIVE WordRunEnd(_, _)
\* index of the last character of the run of \w characters that starts at i
\* (i - 1 when s[i] is no \w character)
WordRunEnd(s, i) ==
    IF i <= Len(s) /\ s[i] \in WordChars THEN WordRunEnd(s, i + 1) ELSE i - 1

\* The match of the expression that starts exactly at index i, or NoMatch.
\* \w+ is greedy and must be followed by "[", a character outside \w, so it
\* takes the whole run; [^\]]+ runs to the first "]" and needs one character.
NoMatch == [ok |-> FALSE]

MatchAt(s, i) ==
    IF i > Len(s) \/ s[i] # "@" THEN NoMatch
    ELSE LET e == WordRunEnd(s, i + 1)
         IN  IF e < i + 1 \/ e + 1 > Len(s) \/ s[e + 1] # "[" THEN NoMatch
             ELSE LET k == IndexFrom(s, "]", e + 2)
                  IN  IF k = 0 \/ k = e + 2 THEN NoMatch
                      ELSE [ok     |-> TRUE,
                            type   |-> SubSeq(s, i + 1, e),
                            target |-> SubSeq(s, e + 2, k - 1),
                            end    |-> k]

RECURSIVE MatchAll(_, _)
\* String.prototype.matchAll: leftmost matches, each search resuming after
\* the previous match
MatchAll(s, i) ==
    IF i > Len(s) THEN << >>
    ELSE LET m == MatchAt(s, i)
         IN  IF ~m.ok THEN MatchAll(s, i + 1)
             ELSE <<m>> \o MatchAll(s, m.end + 1)

\* the callback without the case of @UUID: every marker gives Type.target
RefOfMatchPrefixed(m) == m.type \o <<".">> \o m.target

\* the callback of .map(): @UUID[x] gives x, @Type[x] gives Type.x
RefOfMatch(m) ==
    IF m.type = S_UUID THEN m.target ELSE m.type \o <<".">> \o m.target

references(text) ==
    LET ms == MatchAll(text, 1)
    IN  [i \in 1..Len(ms) |-> RefOfMatch(ms[i])]

(***************************************************************************)
(* The world: one journal entry J1 with pages P1 and P2, one actor A1.     *)
(* Actor.X9 is the UUID of a deleted actor: it resolves to nothing.        *)
(***************************************************************************)

S_JournalEntry == <<"J","o","u","r","n","a","l","E","n","t","r","y">>
S_JournalEntryPage == S_JournalEntry \o <<"P","a","g","e">>
S_Actor == <<"A","c","t","o","r">>
S_references == "references"
S_referencedBy == "referencedBy"

\* the documents _getAllDocuments() walks, in its order, with the type it gives
AllDocuments ==
    << [entity |-> "P1", type |-> S_JournalEntryPage],
       [entity |-> "P2", type |-> S_JournalEntryPage],
       [entity |-> "A1", type |-> S_Actor] >>

Scanned == {AllDocuments[i].entity : i \in 1..Len(AllDocuments)}

\* every document fromUuidSync can resolve: the scanned ones and the journal
\* entry that holds the pages
Docs == Scanned \cup {"J1"}

\* the type _getAllDocuments gives document d
docType(d) ==
    AllDocuments[CHOOSE i \in 1..Len(AllDocuments) : AllDocuments[i].entity = d].type

U_J1 == Cat(<<S_JournalEntry, <<".">>, <<"J","1">>>>)
U_P1 == Cat(<<U_J1, <<".">>, S_JournalEntryPage, <<".">>, <<"P","1">>>>)
U_P2 == Cat(<<U_J1, <<".">>, S_JournalEntryPage, <<".">>, <<"P","2">>>>)
U_A1 == Cat(<<S_Actor, <<".">>, <<"A","1">>>>)

\* Document#uuid
uuid(d) ==
    CASE d = "J1" -> U_J1
      [] d = "P1" -> U_P1
      [] d = "P2" -> U_P2
      [] d = "A1" -> U_A1

\* fromUuidSync(reference): the document, or NULL
fromUuidSync(reference) ==
    IF \E d \in Docs : uuid(d) = reference
    THEN CHOOSE d \in Docs : uuid(d) = reference
    ELSE NULL

\* "@Type[target]"
Marker(type, target) == Cat(<<<<"@">>, type, <<"[">>, target, <<"]">>>>)

\* The texts the documents are edited to.  T_Rich: a relative link and a full
\* link to page P2, a link to the journal entry, a link to the deleted actor.
T_Rich == Cat(<<Marker(S_UUID, <<".","P","2">>), Marker(S_UUID, U_P2), <<"<","p",">">>,
                Marker(S_UUID, U_J1), <<" ">>, Marker(S_Actor, <<"X","9">>)>>)
T_Other == Cat(<<Marker(S_UUID, U_A1), Marker(S_JournalEntry, <<"J","1">>)>>)
T_Plain == <<"n","o"," ","l","i","n","k","s"," ","@","h","e","r","e">>

Texts(d) ==
    CASE d = "P1" -> <<EmptyStr, T_Rich, T_Plain, T_Other>>
      [] d = "P2" -> <<EmptyStr, T_Other>>
      [] d = "A1" -> <<EmptyStr, T_Rich>>

\* how many of a document's texts are used
MaxTexts == 2

Menu(d) == {Texts(d)[i] : i \in 1..(IF Len(Texts(d)) < MaxTexts
                                     THEN Len(Texts(d)) ELSE MaxTexts)}

AllTexts == UNION {Menu(d) : d \in Scanned}

(***************************************************************************)
(* Flags.  flags[d] holds the keys of flags["sta-utils"] that are set on   *)
(* document d.  The host stores an update by merging it into the stored    *)
(* object: a key "-=k" of the update deletes key k and is not stored, an   *)
(* array replaces the stored array.                                        *)
(***************************************************************************)

EmptyObj == << >>

DeletionPrefix == <<"-","=">>

SetKey(f, k, v) == [x \in DOMAIN f \cup {k} |-> IF x = k THEN v ELSE f[x]]

DelKey(f, k) == [x \in DOMAIN f \ {k} |-> f[x]]

\* the host's merge of an update `other` into the stored object `original`
MergeObject(original, other) ==
    LET delKeys == {k \in DOMAIN other : StartsWith(k, DeletionPrefix)}
        deleted == {SubSeq(k, Len(DeletionPrefix) + 1, Len(k)) : k \in delKeys}
        keep    == (DOMAIN original \ deleted) \cup (DOMAIN other \ delKeys)
    IN  [k \in keep |-> IF k \in DOMAIN other THEN other[k] ELSE original[k]]

HasFlag(fl, d, key) == key \in DOMAIN fl[d]

\* a setFlag that keeps the entries stored since the links were read
SetReferencedByJoined(fl, d, links) ==
    LET stored == IF HasFlag(fl, d, S_referencedBy)
                  THEN fl[d][S_referencedBy] ELSE EmptyObj
        merged == MergeObject(stored, links)
    IN  [fl EXCEPT ![d] =
            SetKey(fl[d], S_referencedBy,
                   [k \in DOMAIN merged |->
                       IF k \in DOMAIN stored
                       THEN stored[k] \o SelectSeq(merged[k],
                                                   LAMBDA v : ~Includes(stored[k], v))
                       ELSE merged[k]])]

\* referenced.setFlag(FLAG_SCOPE, "referencedBy", deepClone(links))
SetReferencedBy(fl, d, links) ==
    LET stored == IF HasFlag(fl, d, S_referencedBy)
                  THEN fl[d][S_referencedBy] ELSE EmptyObj
    IN  [fl EXCEPT ![d] = SetKey(fl[d], S_referencedBy, MergeObject(stored, links))]

\* entity.setFlag(FLAG_SCOPE, "references", updated)
SetReferences(fl, d, updated) ==
    [fl EXCEPT ![d] = SetKey(fl[d], S_references, updated)]

\* entity.unsetFlag(FLAG_SCOPE, key)
UnsetFlag(fl, d, key) == [fl EXCEPT ![d] = DelKey(fl[d], key)]

\* entity.flags?.[FLAG_SCOPE]?.references || []
ExistingReferences(fl, d) ==
    IF HasFlag(fl, d, S_references) THEN fl[d][S_references] ELSE << >>

\* (await referenced.getFlag(FLAG_SCOPE, "referencedBy")) || {}
LinksOf(fl, d) ==
    IF HasFlag(fl, d, S_referencedBy) THEN fl[d][S_referencedBy] ELSE EmptyObj

\* links[entityType] || []
LinksOfType(links, entityType) ==
    IF entityType \in DOMAIN links THEN links[entityType] ELSE << >>

(***************************************************************************)
(* update(entity, entityType, content, force)                              *)
(***************************************************************************)

\* the gate: a run that is not forced does nothing when rebuildOnSave is off
Gated(force, ros) == ~force /\ ~ros

\* a reference that starts with "." is rebuilt from the entity's UUID
FullReference(reference, entity, entityType) ==
    IF StartsWith(reference, <<".">>)
    THEN Cat(<<Join(Slice0(Split(uuid(entity), "."), 2), "."),
               <<".">>, entityType, reference>>)
    ELSE reference

\* the test of `updated` left out
NeverUpdated(updated, reference) == FALSE

\* updated.includes(reference)
AlreadyUpdated(updated, reference) == Includes(updated, reference)

\* the test of linksOfType left out
NeverLinked(linksOfType, u) == FALSE

\* linksOfType.includes(entity.uuid)
AlreadyLinked(linksOfType, u) == Includes(linksOfType, u)

RECURSIVE AddLoop(_, _, _, _, _, _)
\* the loop "Add new references": the flags and the list `updated` it leaves
AddLoop(fl, refs, entity, entityType, existing, updated) ==
    IF refs = << >> THEN [fl |-> fl, updated |-> updated]
    ELSE
    LET reference == FullReference(Head(refs), entity, entityType)
        rest      == Tail(refs)
        pushed    == Append(updated, reference)
        referenced == fromUuidSync(reference)
        links     == LinksOf(fl, referenced)
        linksOfType == LinksOfType(links, entityType)
    IN  IF AlreadyUpdated(updated, reference)
        THEN AddLoop(fl, rest, entity, entityType, existing, updated)
        ELSE IF Includes(existing, reference)
        THEN AddLoop(fl, rest, entity, entityType, existing, pushed)
        ELSE IF referenced = NULL
        THEN AddLoop(fl, rest, entity, entityType, existing, pushed)
        ELSE IF AlreadyLinked(linksOfType, uuid(entity))
        THEN AddLoop(fl, rest, entity, entityType, existing, pushed)
        ELSE AddLoop(SetReferencedBy(fl, referenced,
                         SetKey(links, entityType, Append(linksOfType, uuid(entity)))),
                     rest, entity, entityType, existing, pushed)

\* the filter with its test inverted
OutdatedKept(existing, updated) ==
    SelectSeq(existing, LAMBDA v : Includes(updated, v))

\* existing.filter((v) => !updated.includes(v))
Outdated(existing, updated) ==
    SelectSeq(existing, LAMBDA v : ~Includes(updated, v))

\* linksOfType.indexOf(u), 0 when absent
IndexOf(seq, x) ==
    IF Includes(seq, x) THEN CHOOSE i \in 1..Len(seq) :
                                 seq[i] = x /\ \A j \in 1..(i - 1) : seq[j] # x
    ELSE 0

\* linksOfType.splice(idx, 1)
Splice1(seq, idx) == SubSeq(seq, 1, idx - 1) \o SubSeq(seq, idx + 1, Len(seq))

\* the list written back also when it is empty
KeepEmptyBucket(links, entityType, spliced) == SetKey(links, entityType, spliced)

\* what is written back after the entity was spliced out of links[entityType]:
\* the shorter list, or the bucket deleted and the key "-=<entityType>" set
WithoutEntity(links, entityType, spliced) ==
    IF Len(spliced) > 0
    THEN SetKey(links, entityType, spliced)
    ELSE SetKey(DelKey(links, entityType), DeletionPrefix \o entityType, NULL)

RECURSIVE RemoveLoop(_, _, _, _)
\* the loop "Remove outdated references"
RemoveLoop(fl, outdated, entity, entityType) ==
    IF outdated = << >> THEN fl
    ELSE
    LET target == fromUuidSync(Head(outdated))
        rest   == Tail(outdated)
        links  == fl[target][S_referencedBy]
        linksOfType == LinksOfType(links, entityType)
        outdatedIdx == IndexOf(linksOfType, uuid(entity))
    IN  IF target = NULL
        THEN RemoveLoop(fl, rest, entity, entityType)
        ELSE IF ~HasFlag(fl, target, S_referencedBy)
        THEN RemoveLoop(fl, rest, entity, entityType)
        ELSE IF outdatedIdx > 0
        THEN RemoveLoop(SetReferencedBy(fl, target,
                            WithoutEntity(links, entityType,
                                          Splice1(linksOfType, outdatedIdx))),
                        rest, entity, entityType)
        ELSE RemoveLoop(fl, rest, entity, entityType)

\* references(text) of every text, scanned once
ReferencesOf == [c \in AllTexts |-> references(c)]

\* update(entity, entityType, text, force): the flags of every document after
\* the run, whether the gate let it run, and its list `updated`
update(fl, entity, entityType, text, force, ros) ==
    IF Gated(force, ros) THEN [fl |-> fl, ran |-> FALSE, updated |-> << >>]
    ELSE LET existing == ExistingReferences(fl, entity)
             added    == AddLoop(fl, ReferencesOf[text], entity, entityType,
                                 existing, << >>)
             removed  == RemoveLoop(added.fl, Outdated(existing, added.updated),
                                    entity, entityType)
         IN  [fl      |-> SetReferences(removed, entity, added.updated),
              ran     |-> TRUE,
              updated |-> added.updated]

(***************************************************************************)
(* sync()                                                                  *)
(***************************************************************************)

\* _getContent(entity, type).  A page gives text.content.  The actor holds its
\* rich text in system.description.value: that string is the one candidate
\* that is a non-empty string, the deep scan finds no other string, and the
\* join of the one part is the part.
getContent(cont, entity, type) ==
    IF type = S_JournalEntryPage THEN cont[entity]
    ELSE Join(IF Len(cont[entity]) > 0 THEN <<cont[entity]>> ELSE << >>, "\n")

RECURSIVE WipeReferencedBy(_, _)
\* phase 1: unset referencedBy on every document of the list that has it
WipeReferencedBy(fl, documents) ==
    IF documents = << >> THEN fl
    ELSE LET entity == Head(documents).entity
         IN  WipeReferencedBy(
                 IF HasFlag(fl, entity, S_referencedBy)
                 THEN UnsetFlag(fl, entity, S_referencedBy) ELSE fl,
                 Tail(documents))

\* phase 2 without the wipe of references
KeepReferences(fl, entity) == fl

\* phase 2, first half of the loop body: unset references when it is set
WipeReferences(fl, entity) ==
    IF HasFlag(fl, entity, S_references)
    THEN UnsetFlag(fl, entity, S_references) ELSE fl

RECURSIVE Rebuild(_, _, _)
\* phase 2: wipe references, then a forced update of every document that has
\* content
Rebuild(fl, cont, documents) ==
    IF documents = << >> THEN fl
    ELSE LET entity  == Head(documents).entity
             type    == Head(documents).type
             wiped   == WipeReferences(fl, entity)
             text    == getContent(cont, entity, type)
         IN  Rebuild(IF text # EmptyStr
                     THEN update(wiped, entity, type, text, TRUE, FALSE).fl
                     ELSE wiped,
                     cont, Tail(documents))

\* the documents phase 1 walks
WipeList == AllDocuments

sync(fl, cont) == Rebuild(WipeReferencedBy(fl, WipeList), cont, AllDocuments)

(***************************************************************************)
(* The operations                                                          *)
(***************************************************************************)

Pages == {d \in Scanned : docType(d) = S_JournalEntryPage}
Others == Scanned \ Pages

\* op: the operation that produced the state.  dropped: the documents the
\* entity's stored references named before the run and the text of the run no
\* longer names.  again: the operation before it was the same call.
NoOp == [name |-> "init", entity |-> NULL, text |-> << >>, force |-> FALSE,
         ran |-> FALSE, dropped |-> {}, again |-> FALSE]

\* the documents a list of references resolves to
Resolved(refs) == {fromUuidSync(refs[i]) : i \in 1..Len(refs)} \ {NULL}

\* the record of a call of update
UpdateOp(entity, text, force, run) ==
    [name |-> "update", entity |-> entity, text |-> text, force |-> force,
     ran |-> run.ran,
     dropped |-> IF run.ran
                 THEN Resolved(ExistingReferences(flags, entity)) \ Resolved(run.updated)
                 ELSE {},
     again |-> /\ op.name = "update" /\ op.entity = entity
               /\ op.text = text /\ op.force = force]

\* a call of update from a pre-update handler, and the change the host then
\* applies to the document
CallUpdate(entity, type, text, force, newContent) ==
    LET run == update(flags, entity, type, text, force, rebuildOnSave)
    IN  /\ flags' = run.fl
        /\ op' = UpdateOp(entity, text, force, run)
        /\ content' = [content EXCEPT ![entity] = newContent]
        /\ UNCHANGED <<rebuildOnSave, isGM>>

\* preUpdateJournalEntryPage with change.text = {content: c}
PageTextChange(entity, c) ==
    /\ entity \in Pages
    /\ c \in Menu(entity)
    /\ CallUpdate(entity, S_JournalEntryPage, c, FALSE, c)
    /\ UNCHANGED <<refVars, mergeVars, renderVars, warpVars, appVars>>

\* preUpdateJournalEntryPage with a change.text that has no content (a change
\* of text.format): text.content || "" is ""
PageFormatChange(entity) ==
    /\ entity \in Pages
    /\ CallUpdate(entity, S_JournalEntryPage, EmptyStr, FALSE, content[entity])
    /\ UNCHANGED <<refVars, mergeVars, renderVars, warpVars, appVars>>

\* preUpdateActor with change.system set: the content is read from the entity,
\* which still holds the data from before the change
ActorSystemChange(entity, c) ==
    /\ entity \in Others
    /\ c \in Menu(entity)
    /\ CallUpdate(entity, docType(entity),
                  getContent(content, entity, docType(entity)), FALSE, c)
    /\ UNCHANGED <<refVars, mergeVars, renderVars, warpVars, appVars>>

\* a pre-update of any kind whose change is flags["sta-utils"]["-=sync"] = null
SyncFlagChange(entity) ==
    /\ entity \in Scanned
    /\ CallUpdate(entity, docType(entity),
                  getContent(content, entity, docType(entity)), TRUE,
                  content[entity])
    /\ UNCHANGED <<refVars, mergeVars, renderVars, warpVars, appVars>>

\* sync(), started from the settings menu or by checkInitialSync: both are
\* open to a GM only
Sync ==
    /\ isGM
    /\ flags' = sync(flags, content)
    /\ op' = [NoOp EXCEPT !.name = "sync", !.again = (op.name = "sync")]
    /\ UNCHANGED <<content, rebuildOnSave, isGM, refVars, mergeVars, renderVars, warpVars, appVars>>

\* the world setting backlinksRebuildOnSave is changed
SetRebuildOnSave(b) ==
    /\ b \in BOOLEAN
    /\ b # rebuildOnSave
    /\ rebuildOnSave' = b
    /\ op' = [NoOp EXCEPT !.name = "setting"]
    /\ UNCHANGED <<content, flags, isGM, refVars, mergeVars, renderVars, warpVars, appVars>>

\* a result that is not computed yet
Pending == [done |-> FALSE]

\* no text is being scanned
RefsIdle == refText = << >> /\ refItems = << >> /\ refOut = Pending

\* nothing is being merged
MergeIdle == mergeA = EmptyObj /\ mergeB = EmptyObj /\ mergeOut = Pending

\* no sheet is rendered
RenderIdle ==
    /\ element = << >>
    /\ viewer = [allowed |-> {}, throws |-> {}]
    /\ render = Pending

\* the warp calculator is not loaded
WarpIdle == lit = << >> /\ calc = Pending

\* no run of update() is followed step by step
RaceIdle == runs = << >>

\* the parts that follow the warp calculator are idle
AppIdle ==
    /\ RaceIdle
    /\ startup = << >>
    /\ dialog = << >>
    /\ fatigue = << >>
    /\ traits = << >>

\* a new world: no document has content or flags
GraphInit ==
    /\ content = [d \in Scanned |-> EmptyStr]
    /\ flags = [d \in Docs |-> EmptyObj]
    /\ op = NoOp

\* rebuildOnSave is a world setting (default true) a GM may have changed; the
\* user is a GM or a player.  The player of the model owns the documents, so
\* the host accepts the flags the player's client writes.
Init ==
    /\ GraphInit
    /\ rebuildOnSave \in BOOLEAN
    /\ isGM \in BOOLEAN
    /\ RefsIdle
    /\ MergeIdle
    /\ RenderIdle
    /\ WarpIdle
    /\ AppIdle

Next ==
    \/ \E d \in Pages : \E c \in Menu(d) : PageTextChange(d, c)
    \/ \E d \in Pages : PageFormatChange(d)
    \/ \E d \in Others : \E c \in Menu(d) : ActorSystemChange(d, c)
    \/ \E d \in Scanned : SyncFlagChange(d)
    \/ Sync
    \/ \E b \in BOOLEAN : SetRebuildOnSave(b)

Spec == Init /\ [][Next]_vars

(***************************************************************************)
(* Properties of the reference graph                                       *)
(***************************************************************************)

\* the documents the text of a run of update for `entity` links to
LinkTargets(entity, text) ==
    {fromUuidSync(FullReference(ReferencesOf[text][i], entity, docType(entity))) :
        i \in 1..Len(ReferencesOf[text])} \ {NULL}

\* target.referencedBy[kind] holds u
ReferencedBy(target, kind, u) ==
    /\ HasFlag(flags, target, S_referencedBy)
    /\ kind \in DOMAIN flags[target][S_referencedBy]
    /\ Includes(flags[target][S_referencedBy][kind], u)

NoDuplicates(seq) == \A i, j \in 1..Len(seq) : seq[i] = seq[j] => i = j

C2_Mirror ==
    \A t \in Docs : \A src \in Scanned :
        ReferencedBy(t, docType(src), uuid(src))
            <=> Includes(ExistingReferences(flags, src), uuid(t))

\* every list of a flag holds each UUID once
AllListsDistinct ==
    \A d \in Docs :
        /\ NoDuplicates(ExistingReferences(flags, d))
        /\ \A k \in DOMAIN LinksOf(flags, d) : NoDuplicates(LinksOf(flags, d)[k])

\* C3: a run of update that repeats the run before it (same entity, text and
\* force) leaves the flags of every document as they were, and no list of a
\* flag ever holds a UUID twice.
C3_UpdateIdempotent ==
    /\ [][(op'.name = "update" /\ op'.again) => flags' = flags]_vars
    /\ []AllListsDistinct

\* a repeated run, let through by the gate, of a text that names the same
\* target twice
C3_Witness ==
    /\ op.name = "update" /\ op.again /\ op.ran
    /\ \E i, j \in 1..Len(ReferencesOf[op.text]) :
           /\ i # j
           /\ FullReference(ReferencesOf[op.text][i], op.entity, docType(op.entity))
                = FullReference(ReferencesOf[op.text][j], op.entity, docType(op.entity))

\* C4: a sync that follows a sync, with nothing in between, leaves the flags
\* of every document as the first sync left them.
C4_SyncIdempotent ==
    [][(op.name = "sync" /\ op'.name = "sync") => flags' = flags]_vars

\* a second sync in a row, over links and a stale journal-entry flag
C4_Witness ==
    /\ op.name = "sync" /\ op.again
    /\ \E d \in Docs : LinksOf(flags, d) # EmptyObj

\* the UUIDs kept in the flags of document d
StoredUuids(d) ==
    {ExistingReferences(flags, d)[i] : i \in 1..Len(ExistingReferences(flags, d))}
    \cup UNION {{LinksOf(flags, d)[k][i] : i \in 1..Len(LinksOf(flags, d)[k])} :
                    k \in DOMAIN LinksOf(flags, d)}

\* C5: after sync or update, a link target that does not resolve is in no
\* referencedBy flag and in no stored references flag.
C5_UnresolvedOmitted ==
    (op.name = "sync" \/ (op.name = "update" /\ op.ran)) =>
        \A d \in Docs : \A u \in StoredUuids(d) : fromUuidSync(u) # NULL

\* the references of a document's current content, in full form
ContentReferences(d) ==
    LET refs == ReferencesOf[getContent(content, d, docType(d))]
    IN  {FullReference(refs[i], d, docType(d)) : i \in 1..Len(refs)}

\* C6: after sync, whatever rebuildOnSave is: a scanned document with content
\* has a references flag that holds, each once, the references of its content
\* (a relative reference in its full form); a scanned document without content
\* has no references flag; and a referencedBy flag of a scanned document names
\* only sources whose content links to the document.
C6_SyncPostcondition ==
    op.name = "sync" =>
        \A d \in Scanned :
            /\ getContent(content, d, docType(d)) # EmptyStr =>
                   /\ HasFlag(flags, d, S_references)
                   /\ NoDuplicates(flags[d][S_references])
                   /\ {flags[d][S_references][i] :
                          i \in 1..Len(flags[d][S_references])} = ContentReferences(d)
            /\ getContent(content, d, docType(d)) = EmptyStr =>
                   ~HasFlag(flags, d, S_references)
            /\ \A k \in DOMAIN LinksOf(flags, d) :
                   \A i \in 1..Len(LinksOf(flags, d)[k]) :
                       \E src \in Scanned :
                           /\ uuid(src) = LinksOf(flags, d)[k][i]
                           /\ docType(src) = k
                           /\ uuid(d) \in ContentReferences(src)

\* a sync with rebuildOnSave off, over a document with links, a document
\* without content, and a referencedBy flag that was rebuilt
C6_Witness ==
    /\ op.name = "sync" /\ ~rebuildOnSave
    /\ \E d \in Scanned : ContentReferences(d) # {}
    /\ \E d \in Scanned : content[d] = EmptyStr
    /\ \E d \in Scanned : LinksOf(flags, d) # EmptyObj

\* C7: an update from a pre-update hook that is not forced changes flags only
\* when the user is a GM and rebuildOnSave is on.
C7_GatedByGMAndSetting ==
    [][(op'.name = "update" /\ ~op'.force /\ ~(isGM /\ rebuildOnSave))
           => flags' = flags]_vars

\* C9: no referencedBy flag holds a kind with an empty list, nor a key that
\* marks a deletion.
C9_NoEmptyBucket ==
    \A d \in Docs : \A k \in DOMAIN LinksOf(flags, d) :
        /\ ~StartsWith(k, DeletionPrefix)
        /\ LinksOf(flags, d)[k] # << >>

\* a run of update has taken the last source of its kind out of a document's
\* referencedBy, and the flag is there without the kind
C9_Witness ==
    /\ op.name = "update" /\ op.ran
    /\ \E b \in op.dropped :
           /\ HasFlag(flags, b, S_referencedBy)
           /\ docType(op.entity) \notin DOMAIN flags[b][S_referencedBy]

\* the references stored for document d, as a set
StoredReferences(d) ==
    {ExistingReferences(flags, d)[i] : i \in 1..Len(ExistingReferences(flags, d))}

\* C22: after a pre-update handler's run of update (one the gate let run),
\* for a document of any kind, the references stored for the document are the
\* references of its content as it is after the change; and a change of a
\* page whose text object has no content leaves the flags of every document
\* as they were.
C22_PersistedMatchesContent ==
    /\ [](op.name = "update" /\ op.ran =>
              StoredReferences(op.entity) = ContentReferences(op.entity))
    /\ [][(\E d \in Pages : PageFormatChange(d)) => flags' = flags]_vars

\* source u of kind k links to document t in its current content
LinksTo(u, k, t) ==
    \E src \in Scanned :
        /\ uuid(src) = u
        /\ docType(src) = k
        /\ uuid(t) \in ContentReferences(src)

\* C24: after sync, every entry of the referencedBy flag of every document,
\* the journal entry that sync does not scan included, names a source whose
\* current content links to the document.
C24_NoStaleIncoming ==
    op.name = "sync" =>
        \A t \in Docs : \A k \in DOMAIN LinksOf(flags, t) :
            \A i \in 1..Len(LinksOf(flags, t)[k]) :
                LinksTo(LinksOf(flags, t)[k][i], k, t)

(***************************************************************************)
(* references(text) on texts written from markers and other pieces         *)
(***************************************************************************)

MaxPieces == 3

S_UUIDs == S_UUID \o <<"s">>

MarkerTypes == {S_UUID, S_Actor, S_UUIDs}

MarkerTargets == {<<"a","1">>, <<".","p"," ","q">>, <<"@","x","[","y">>}

\* pieces that are no marker and complete none: they hold no "[" after a type
Fillers == {<<" ">>, <<"@">>, <<"]">>, <<"x","_","1">>, <<"@","U","U","I","D","[","]">>}

Pieces ==
    [kind : {"marker"}, type : MarkerTypes, target : MarkerTargets]
    \cup [kind : {"filler"}, type : {<< >>}, target : Fillers]

PieceText(p) ==
    IF p.kind = "marker" THEN Marker(p.type, p.target) ELSE p.target

RECURSIVE TextOf(_)
TextOf(items) ==
    IF items = << >> THEN << >> ELSE PieceText(Head(items)) \o TextOf(Tail(items))

PieceLists == UNION {[1..n -> Pieces] : n \in 0..MaxPieces}

InitRefs ==
    /\ GraphInit /\ rebuildOnSave = TRUE /\ isGM = TRUE
    /\ MergeIdle /\ RenderIdle /\ WarpIdle /\ AppIdle
    /\ refItems \in PieceLists
    /\ refText = TextOf(refItems)
    /\ refOut = Pending

\* references(refText) is called
Scan ==
    /\ ~refOut.done
    /\ refOut' = [done |-> TRUE, out |-> references(refText)]
    /\ UNCHANGED <<refText, refItems, graphVars, mergeVars, renderVars, warpVars, appVars>>

NextRefs == Scan

SpecRefs == InitRefs /\ [][NextRefs]_vars

\* the markers of a list of pieces, in order
MarkersOf(items) == SelectSeq(items, LAMBDA p : p.kind = "marker")

\* C8: references(text) gives one entry per marker @Type[target], in the
\* order of the markers: the target itself when Type is UUID, otherwise
\* Type.target; a text without a marker gives the empty list.
C8_ReferencesPerMarker ==
    refOut.done =>
        LET ms == MarkersOf(refItems)
        IN  /\ Len(refOut.out) = Len(ms)
            /\ \A i \in 1..Len(ms) :
                   refOut.out[i] = IF ms[i].type = S_UUID
                                   THEN ms[i].target
                                   ELSE ms[i].type \o <<".">> \o ms[i].target

\* a scanned text with a UUID marker after a marker of another type
C8_Witness ==
    /\ refOut.done
    /\ \E i, j \in 1..Len(refItems) :
           /\ i < j
           /\ refItems[i].kind = "marker" /\ refItems[i].type # S_UUID
           /\ refItems[j].kind = "marker" /\ refItems[j].type = S_UUID
    /\ Len(refOut.out) = 2

(***************************************************************************)
(* _mergeReferencedBy(a, b)                                                *)
(***************************************************************************)

\* every UUID pushed, also one the list holds
PushAll(list, uuids) == list \o uuids

RECURSIVE PushNew(_, _)
\* for (const uuid of uuids) if (!merged[type].includes(uuid)) push
PushNew(list, uuids) ==
    IF uuids = << >> THEN list
    ELSE PushNew(IF Includes(list, Head(uuids)) THEN list
                 ELSE Append(list, Head(uuids)),
                 Tail(uuids))

\* one pass of the outer loop: the entries of obj merged into `merged`
MergeInto(merged, obj) ==
    [type \in DOMAIN merged \cup DOMAIN obj |->
        IF type \in DOMAIN obj
        THEN PushNew(IF type \in DOMAIN merged THEN merged[type] ELSE << >>,
                     obj[type])
        ELSE merged[type]]

mergeReferencedBy(a, b) == MergeInto(MergeInto(EmptyObj, a), b)

MaxList == 2

MergeKinds == {S_JournalEntryPage, S_Actor}

MergeUuids == {U_P1, U_P2, U_A1}

\* the lists a referencedBy flag holds: not empty, no UUID twice
MergeLists ==
    {l \in UNION {[1..n -> MergeUuids] : n \in 1..MaxList} : NoDuplicates(l)}

MergeMaps == UNION {[ks -> MergeLists] : ks \in SUBSET MergeKinds}

InitMerge ==
    /\ GraphInit /\ rebuildOnSave = TRUE /\ isGM = TRUE
    /\ RefsIdle /\ RenderIdle /\ WarpIdle /\ AppIdle
    /\ mergeA \in MergeMaps
    /\ mergeB \in MergeMaps
    /\ mergeOut = Pending

\* _handleJournalSheetRender merges the page's map (a) and the journal's (b)
Merge ==
    /\ ~mergeOut.done
    /\ mergeOut' = [done |-> TRUE, out |-> mergeReferencedBy(mergeA, mergeB)]
    /\ UNCHANGED <<mergeA, mergeB, graphVars, refVars, renderVars, warpVars, appVars>>

NextMerge == Merge

SpecMerge == InitMerge /\ [][NextMerge]_vars

ElementsOf(seq) == {seq[i] : i \in 1..Len(seq)}

\* the UUIDs map m holds under kind k
UuidsUnder(m, k) == IF k \in DOMAIN m THEN ElementsOf(m[k]) ELSE {}

\* C10: the merged map has the kinds of a and of b; under each kind it holds
\* exactly the UUIDs a or b hold under it, each once; so a map merged with
\* itself or with the empty map keeps its sets.
C10_MergeDedup ==
    mergeOut.done =>
        /\ DOMAIN mergeOut.out = DOMAIN mergeA \cup DOMAIN mergeB
        /\ \A k \in DOMAIN mergeOut.out :
               /\ ElementsOf(mergeOut.out[k])
                    = UuidsUnder(mergeA, k) \cup UuidsUnder(mergeB, k)
               /\ NoDuplicates(mergeOut.out[k])
        /\ (mergeB = mergeA \/ mergeB = EmptyObj) =>
               \A k \in DOMAIN mergeA :
                   ElementsOf(mergeOut.out[k]) = ElementsOf(mergeA[k])

\* a merge of two maps that hold the same UUID under the same kind, and b one
\* more
C10_Witness ==
    /\ mergeOut.done
    /\ \E k \in DOMAIN mergeA \cap DOMAIN mergeB :
           /\ ElementsOf(mergeA[k]) \cap ElementsOf(mergeB[k]) # {}
           /\ ElementsOf(mergeB[k]) \ ElementsOf(mergeA[k]) # {}

(***************************************************************************)
(* includeLinksFromRefs(html, links, entityData)                           *)
(***************************************************************************)

\* the UUID of an actor that was deleted: fromUuidSync finds nothing
U_X9 == Cat(<<S_Actor, <<".">>, <<"X","9">>>>)

\* the kinds of a links object, in the order Object.entries gives them
EntryKinds == <<S_JournalEntryPage, S_Actor>>

RECURSIVE EntriesOf(_, _)
\* the pairs (type, value) the two nested loops go through
EntriesOf(links, kinds) ==
    IF kinds = << >> THEN << >>
    ELSE (IF Head(kinds) \in DOMAIN links
          THEN [i \in 1..Len(links[Head(kinds)]) |->
                   [type |-> Head(kinds), uuid |-> links[Head(kinds)][i]]]
          ELSE << >>)
         \o EntriesOf(links, Tail(kinds))

\* entity.testUserPermission(game.user, minPermission): the host's predicate
\* allows, denies or throws
testUserPermission(entity, user) ==
    IF entity \in user.throws THEN "throws"
    ELSE IF entity \in user.allowed THEN "allow" ELSE "deny"

RECURSIVE LinksList(_, _, _)
\* the loops that fill linksList; no statement of them catches an exception,
\* so one thrown by the predicate ends the call
LinksList(entries, user, list) ==
    IF entries = << >> THEN [threw |-> FALSE, list |-> list]
    ELSE LET value == Head(entries).uuid
             entity == fromUuidSync(value)
         IN  IF value = EmptyStr THEN LinksList(Tail(entries), user, list)
             ELSE IF entity = NULL THEN LinksList(Tail(entries), user, list)
             ELSE LET p == testUserPermission(entity, user)
                  IN  IF p = "throws" THEN [threw |-> TRUE, list |-> list]
                      ELSE IF p = "deny"
                      THEN LinksList(Tail(entries), user, list)
                      ELSE LinksList(Tail(entries), user,
                                     Append(list, Head(entries)))

\* the section of an earlier render is left in the element
KeepExisting(el) == el

\* existing = element.querySelector(".journal-backlinks"); existing?.remove()
WithoutExisting(el) == IF el = << >> THEN el ELSE Tail(el)

\* `found`: _getElementToModify(html) finds an element
includeLinksFromRefs(el, links, user, found) ==
    LET r == LinksList(EntriesOf(links, EntryKinds), user, << >>)
    IN  IF r.threw
        THEN [element |-> el, threw |-> TRUE, injected |-> FALSE]
        ELSE IF found
        THEN [element |-> Append(WithoutExisting(el), r.list),
              threw |-> FALSE, injected |-> TRUE]
        ELSE [element |-> el, threw |-> FALSE, injected |-> FALSE]

\* the UUIDs a referencedBy map holds under a kind: sources of that kind,
\* one of them deleted since
RenderUuids(kind) ==
    IF kind = S_JournalEntryPage THEN {U_P1, U_P2} ELSE {U_A1, U_X9}

RenderLists(kind) ==
    {l \in UNION {[1..n -> RenderUuids(kind)] : n \in 1..MaxList} :
        NoDuplicates(l)}

\* the referencedBy maps a sheet is rendered with
RenderMaps ==
    UNION {{m \in [ks -> UNION {RenderLists(k) : k \in ks}] :
               \A k \in ks : m[k] \in RenderLists(k)} : ks \in SUBSET MergeKinds}

InitRender ==
    /\ GraphInit /\ rebuildOnSave = TRUE /\ isGM = TRUE
    /\ RefsIdle /\ MergeIdle /\ WarpIdle /\ AppIdle
    /\ element = << >>
    /\ viewer \in [allowed : SUBSET {"P1", "P2", "A1"}, throws : SUBSET {"P2", "A1"}]
    /\ render = Pending

\* a sheet is rendered, or rendered again, and the backlinks are injected
Render(links, found) ==
    /\ LET r == includeLinksFromRefs(element, links, viewer, found)
       IN  /\ element' = r.element
           /\ render' = [done |-> TRUE, links |-> links, found |-> found,
                         before |-> Len(element),
                         threw |-> r.threw, injected |-> r.injected]
    /\ UNCHANGED <<viewer, graphVars, refVars, mergeVars, warpVars, appVars>>

NextRender == \E links \in RenderMaps : \E found \in BOOLEAN : Render(links, found)

SpecRender == InitRender /\ [][NextRender]_vars

\* the entries of the section the last render injected
Shown == ElementsOf(element[Len(element)])

\* the entries of the links the viewer may see, when `deny` holds the
\* documents that are denied
Visible(links, denied) ==
    {e \in [type : MergeKinds, uuid : {U_P1, U_P2, U_A1, U_X9}] :
        /\ e.uuid \in UuidsUnder(links, e.type)
        /\ fromUuidSync(e.uuid) # NULL
        /\ fromUuidSync(e.uuid) \in viewer.allowed \ denied}

\* C11: the list a render injects has an entry for a UUID of the
\* referencedBy map exactly when the UUID resolves to a document and the user
\* passes the permission test on it; and after any number of renders the
\* element holds at most one backlinks section.
C11_RenderedList ==
    /\ Len(element) <= 1
    /\ (render.done /\ render.injected) => Shown = Visible(render.links, {})

\* a render over a section of an earlier render, with a link that does not
\* resolve, a link the user is denied and a link the user may see
C11_Witness ==
    /\ render.done /\ render.injected /\ render.before = 1
    /\ DOMAIN render.links = MergeKinds
    /\ render.links[S_Actor] = <<U_X9, U_A1>>
    /\ render.links[S_JournalEntryPage] = <<U_P1, U_P2>>
    /\ "P1" \notin viewer.allowed
    /\ Shown = {[type |-> S_JournalEntryPage, uuid |-> U_P2],
                [type |-> S_Actor, uuid |-> U_A1]}

\* C12: when the permission predicate throws for an entry, the entry is left
\* out as if denied, the other entries are rendered and no exception leaves
\* the call.
C12_FailClosed ==
    (render.done /\ render.found) =>
        /\ ~render.threw
        /\ render.injected
        /\ Shown = Visible(render.links, viewer.throws)

(***************************************************************************)
(* Natural numbers of any size: the limbs of a number in base 2^13, lowest *)
(* first, the highest not 0; zero is the empty sequence.  An operator      *)
(* binds a value it uses more than once with "v \in {e}", which evaluates  *)
(* e once.                                                                 *)
(***************************************************************************)

LimbBits == 13
Base == 8192

\* the element of a set of one element
The(S) == CHOOSE r \in S : TRUE

RECURSIVE Pow2(_)
Pow2(n) == IF n = 0 THEN 1 ELSE 2 * Pow2(n - 1)

Limb(a, i) == IF 1 <= i /\ i <= Len(a) THEN a[i] ELSE 0

\* without the zero limbs at the high end
Strip(a0) ==
    The({SubSeq(a, 1, IF \A i \in 1..Len(a) : a[i] = 0 THEN 0
                      ELSE CHOOSE i \in 1..Len(a) :
                               a[i] # 0 /\ \A k \in (i+1)..Len(a) : a[k] = 0) :
            a \in {a0}})

\* x (limbs below Base + 2) with the carries taken to the next limbs
Carry1(x0) ==
    The({[i \in 1..Len(x) |->
            (x[i] + (IF \E j \in 1..(i-1) :
                           x[j] >= Base /\ \A k \in (j+1)..(i-1) : x[k] = Base - 1
                     THEN 1 ELSE 0)) % Base] \o << >> : x \in {x0}})

\* the number with `limbs` v[i] < 2^31: each v[i] is split in three limbs,
\* which leaves limbs below 3 * Base, then below Base + 2, then below Base
Normalize(v0) ==
    The({The({Strip(Carry1(
                 [i \in 1..Len(w) + 1 |->
                     (Limb(w, i) % Base) + (Limb(w, i - 1) \div Base)] \o << >>)) :
            w \in {[i \in 1..Len(v) + 2 |->
                      (Limb(v, i) % Base) + ((Limb(v, i - 1) \div Base) % Base)
                      + (Limb(v, i - 2) \div (Base * Base))] \o << >>}}) :
       v \in {v0}})

RECURSIVE BigOfInt(_)
BigOfInt(n) == IF n = 0 THEN << >> ELSE <<n % Base>> \o BigOfInt(n \div Base)

Max(i, j) == IF i < j THEN j ELSE i

BigAdd(a0, b0) ==
    The({Normalize([i \in 1..Max(Len(a), Len(b)) |-> Limb(a, i) + Limb(b, i)]) :
            a \in {a0}, b \in {b0}})

\* a - b for a >= b: limb i borrows when a lower limb of a is below b's and
\* the limbs between are equal
BigSub(a0, b0) ==
    The({Strip([i \in 1..Len(a) |->
                  (a[i] - Limb(b, i) + Base
                   - (IF \E j \in 1..(i-1) :
                            /\ a[j] < Limb(b, j)
                            /\ \A k \in (j+1)..(i-1) : a[k] <= Limb(b, k)
                      THEN 1 ELSE 0)) % Base] \o << >>) :
            a \in {a0}, b \in {b0}})

\* -1, 0, 1 as a < b, a = b, a > b
BigCmp(a0, b0) ==
    The({IF Len(a) < Len(b) THEN -1
         ELSE IF Len(a) > Len(b) THEN 1
         ELSE IF a = b THEN 0
         ELSE IF \E i \in 1..Len(a) :
                    a[i] < b[i] /\ \A k \in (i+1)..Len(a) : a[k] = b[k]
         THEN -1 ELSE 1 : a \in {a0}, b \in {b0}})

\* a * k for 0 <= k < Base * 32
BigMulSmall(a0, k0) ==
    The({Normalize([i \in 1..Len(a) |-> a[i] * k]) : a \in {a0}, k \in {k0}})

RECURSIVE Column(_, _, _, _)
\* the sum of a[j] * b[k + 1 - j] for j from i up
Column(a, b, k, i) ==
    IF i > Len(a) \/ i > k THEN 0
    ELSE Limb(a, i) * Limb(b, k + 1 - i) + Column(a, b, k, i + 1)

\* a * b, for numbers of up to 32 limbs
BigMul(a0, b0) ==
    The({IF a = << >> \/ b = << >> THEN << >>
         ELSE Normalize([k \in 1..(Len(a) + Len(b)) |-> Column(a, b, k, 1)]) :
            a \in {a0}, b \in {b0}})

Zeros(n) == [i \in 1..n |-> 0]

\* a * 2^n
BigShl(a0, n0) ==
    The({IF a = << >> THEN a
         ELSE Zeros(n \div LimbBits) \o BigMulSmall(a, Pow2(n % LimbBits)) :
            a \in {a0}, n \in {n0}})

\* a \div 2^n
BigShr(a0, n0) ==
    The({The({Strip([i \in 1..(Len(a) - (n \div LimbBits)) |->
                       (Limb(a, i + (n \div LimbBits)) \div p)
                       + (Limb(a, i + (n \div LimbBits) + 1) % p) * (Base \div p)]
                    \o << >>) : p \in {Pow2(n % LimbBits)}}) :
            a \in {a0}, n \in {n0}})

RECURSIVE BitLenInt(_)
BitLenInt(n) == IF n = 0 THEN 0 ELSE 1 + BitLenInt(n \div 2)

\* the number of bits of a
BigBitLen(a0) ==
    The({IF a = << >> THEN 0
         ELSE LimbBits * (Len(a) - 1) + BitLenInt(a[Len(a)]) : a \in {a0}})

BigOdd(a0) == The({a # << >> /\ a[1] % 2 = 1 : a \in {a0}})

RECURSIVE DivSmallR(_, _, _, _)
\* from the high limb down; r is the remainder so far; the result is the
\* quotient's limbs (not stripped) after the remainder
DivSmallR(a, k, i, r) ==
    IF i = 0 THEN <<r>>
    ELSE The({DivSmallR(a, k, i - 1, x % k) \o <<x \div k>> :
                 x \in {r * Base + a[i]}})

\* a \div k and a % k for 0 < k <= Base * 32
BigDivSmall(a0, k0) ==
    The({The({[q |-> Strip(Tail(d)), r |-> d[1]] :
                 d \in {DivSmallR(a, k, Len(a), 0)}}) : a \in {a0}, k \in {k0}})

\* the largest q with q * b <= r, for r < b * Base and b's high limb of
\* LimbBits bits: at most 2 below the quotient of the high limbs
QuotDigit(r, b) ==
    The({CHOOSE q \in {Max(est - 2, 0), Max(est - 1, 0), est} :
             /\ BigCmp(BigMulSmall(b, q), r) <= 0
             /\ q < est => BigCmp(BigMulSmall(b, q + 1), r) > 0 :
            est \in {The({IF x >= Base THEN Base - 1 ELSE x :
                        x \in {(Limb(r, Len(b) + 1) * Base + Limb(r, Len(b)))
                               \div b[Len(b)]}})}})

RECURSIVE DivModR(_, _, _, _)
\* long division from the high limb down; r is the remainder so far; the
\* result is the quotient's limbs (not stripped) after the remainder
DivModR(a, b, i, r) ==
    IF i = 0 THEN <<r>>
    ELSE The({The({DivModR(a, b, i - 1, BigSub(r2, BigMulSmall(b, d))) \o <<d>> :
                      d \in {QuotDigit(r2, b)}}) :
                 r2 \in {Strip(<<a[i]>> \o r)}})

\* a \div b and a % b for b > 0: both are shifted to give b's high limb
\* LimbBits bits
BigDivMod(a0, b0) ==
    The({The({The({[q |-> Strip(Tail(d)), r |-> BigShr(d[1], s)] :
                      d \in {IF Len(a) < Len(b) THEN <<a>>
                             ELSE DivModR(a, b, Len(a) - Len(b) + 1,
                                          SubSeq(a, Len(a) - Len(b) + 2, Len(a)))}}) :
                 a \in {BigShl(a0, s)}, b \in {BigShl(b0, s)}}) :
            s \in {LimbBits - BitLenInt(b0[Len(b0)])}})

(***************************************************************************)
(* Numbers of the language: IEEE 754 doubles.  A finite number is          *)
(* (-1)^neg * m * 2^e with m a natural number of exactly 53 bits, or zero  *)
(* (m empty, e = 0); operations round to nearest, ties to even.  The       *)
(* exponent is not bounded: no value of the calculator comes near the      *)
(* largest or the smallest double.                                         *)
(***************************************************************************)

Precision == 53

Zero == [neg |-> FALSE, inf |-> FALSE, m |-> << >>, e |-> 0]

Infinity == [neg |-> FALSE, inf |-> TRUE, m |-> << >>, e |-> 0]

\* the result of 0/0, Infinity/Infinity, 0 * Infinity and Infinity - Infinity;
\* the operations below are not defined on it
NaN == [nan |-> TRUE]

isFinite(x) == ~x.inf

Finite(neg, m, e) == [neg |-> neg, inf |-> FALSE, m |-> m, e |-> e]

\* q * 2^e for q of more than 53 bits, rounded: q \div 2^n and the part
\* shifted out decide; `sticky`: the exact value is a little above q * 2^e
RoundShift(neg, M, e, n, sticky) ==
    The({The({IF BigBitLen(q2) > Precision
              THEN Finite(neg, BigShr(q2, 1), e + n + 1)
              ELSE Finite(neg, q2, e + n) :
                 q2 \in {The({IF c > 0 \/ (c = 0 /\ (sticky \/ BigOdd(q)))
                              THEN BigAdd(q, <<1>>) ELSE q :
                                 c \in {BigCmp(BigSub(M, BigShl(q, n)),
                                               BigShl(<<1>>, n - 1))}})}}) :
            q \in {BigShr(M, n)}})

\* (-1)^neg * M * 2^e rounded to a double
RoundBig(neg, M0, e, sticky) ==
    The({The({IF L = 0 THEN Zero
              ELSE IF L <= Precision
              THEN Finite(neg, BigShl(M, Precision - L), e - (Precision - L))
              ELSE RoundShift(neg, M, e, L - Precision, sticky) :
                 L \in {BigBitLen(M)}}) : M \in {M0}})

FNeg(x0) == The({IF x = Zero THEN x ELSE [x EXCEPT !.neg = ~x.neg] : x \in {x0}})

FAbs(x0) == The({[x EXCEPT !.neg = FALSE] : x \in {x0}})

\* Ma * 2^e - or + Mb * 2^e
AddAligned(aneg, Ma, bneg, Mb, e) ==
    IF aneg = bneg THEN RoundBig(aneg, BigAdd(Ma, Mb), e, FALSE)
    ELSE The({IF c = 0 THEN Zero
              ELSE IF c > 0 THEN RoundBig(aneg, BigSub(Ma, Mb), e, FALSE)
              ELSE RoundBig(bneg, BigSub(Mb, Ma), e, FALSE) :
                 c \in {BigCmp(Ma, Mb)}})

\* a + b
FAdd(a0, b0) ==
    The({IF a.inf /\ b.inf /\ a.neg # b.neg THEN NaN
         ELSE IF a.inf THEN a
         ELSE IF b.inf THEN b
         ELSE IF a.m = << >> THEN b
         ELSE IF b.m = << >> THEN a
         ELSE The({The({AddAligned(a.neg, Ma, b.neg, Mb, emin) :
                           Ma \in {BigShl(a.m, a.e - emin)},
                           Mb \in {BigShl(b.m, b.e - emin)}}) :
                      emin \in {IF a.e < b.e THEN a.e ELSE b.e}}) :
            a \in {a0}, b \in {b0}})

\* a - b
FSub(a0, b0) == The({FAdd(a, FNeg(b)) : a \in {a0}, b \in {b0}})

\* a * b
FMul(a0, b0) ==
    The({IF (a.inf /\ b = Zero) \/ (a = Zero /\ b.inf) THEN NaN
         ELSE IF a.inf \/ b.inf THEN [Infinity EXCEPT !.neg = (a.neg # b.neg)]
         ELSE IF a.m = << >> \/ b.m = << >> THEN Zero
         ELSE RoundBig(a.neg # b.neg, BigMul(a.m, b.m), a.e + b.e, FALSE) :
            a \in {a0}, b \in {b0}})

\* a / b
FDiv(a0, b0) ==
    The({IF (a.inf /\ b.inf) \/ (a = Zero /\ b = Zero) THEN NaN
         ELSE IF a.inf THEN [Infinity EXCEPT !.neg = (a.neg # b.neg)]
         ELSE IF b.inf THEN Zero
         ELSE IF b.m = << >> THEN [Infinity EXCEPT !.neg = a.neg]
         ELSE IF a.m = << >> THEN Zero
         ELSE The({RoundBig(a.neg # b.neg, qr.q, a.e - b.e - (Precision + 3),
                            qr.r # << >>) :
                      qr \in {BigDivMod(BigShl(a.m, Precision + 3), b.m)}}) :
            a \in {a0}, b \in {b0}})

\* -1, 0, 1 as |a| < |b|, |a| = |b|, |a| > |b| for finite a, b
CmpAbs(a, b) ==
    IF a.m = << >> THEN (IF b.m = << >> THEN 0 ELSE -1)
    ELSE IF b.m = << >> THEN 1
    ELSE IF a.e # b.e THEN (IF a.e < b.e THEN -1 ELSE 1)
    ELSE BigCmp(a.m, b.m)

\* -1, 0, 1 as a < b, a = b, a > b
FCmp(a0, b0) ==
    The({IF a = b THEN 0
         ELSE IF a.inf THEN (IF a.neg THEN -1 ELSE 1)
         ELSE IF b.inf THEN (IF b.neg THEN 1 ELSE -1)
         ELSE IF a.neg # b.neg
         THEN (IF a.m = << >> /\ b.m = << >> THEN 0 ELSE IF a.neg THEN -1 ELSE 1)
         ELSE IF a.neg THEN -CmpAbs(a, b) ELSE CmpAbs(a, b) :
            a \in {a0}, b \in {b0}})

FLt(a0, b0) == The({FCmp(a, b) < 0 : a \in {a0}, b \in {b0}})
FLe(a0, b0) == The({FCmp(a, b) <= 0 : a \in {a0}, b \in {b0}})
FGt(a0, b0) == The({FCmp(a, b) > 0 : a \in {a0}, b \in {b0}})
FGe(a0, b0) == The({FCmp(a, b) >= 0 : a \in {a0}, b \in {b0}})

\* Math.min, Math.max
FMin(a0, b0) == The({IF FLt(b, a) THEN b ELSE a : a \in {a0}, b \in {b0}})
FMax(a0, b0) == The({IF FGt(b, a) THEN b ELSE a : a \in {a0}, b \in {b0}})

RECURSIVE BigPow10(_)
BigPow10(k) == IF k = 0 THEN <<1>> ELSE BigMulSmall(BigPow10(k - 1), 10)

\* the double of the decimal literal n * 10^k (n and k integers), as the
\* engine reads it: the double nearest to its value
Decimal(n, k) ==
    The({IF k >= 0 THEN RoundBig(n < 0, BigMul(M, BigPow10(k)), 0, FALSE)
         ELSE The({RoundBig(n < 0, qr.q, -(2 * Precision + LimbBits * (-k)),
                            qr.r # << >>) :
                      qr \in {BigDivMod(BigShl(M, 2 * Precision + LimbBits * (-k)),
                                        BigPow10(-k))}}) :
            M \in {BigOfInt(IF n < 0 THEN -n ELSE n)}})

(***************************************************************************)
(* Math.pow and Math.cbrt.  The language leaves their last bit to the      *)
(* implementation; here they give the double nearest to the exact value,   *)
(* computed as exp(y * ln x) on fixed-point numbers of FracBits binary     *)
(* places.  The calculator calls them with x >= 1 and y > 0 only.          *)
(***************************************************************************)

FracBits == 91

FxOne == BigShl(<<1>>, FracBits)

\* a * b of two fixed-point numbers
FxMul(a0, b0) == The({BigShr(p, FracBits) : p \in {BigMul(a0, b0)}})

RECURSIVE AtanhSeries(_, _, _, _, _, _)
\* s + p/j + p z^2/(j + 2) + p z^4/(j + 4) + ... for a power p of z, three
\* terms at a time
AtanhSeries(p, z2, z4, z6, j, s) ==
    IF p = << >> THEN s
    ELSE The({AtanhSeries(p6, z2, z4, z6, j + 6, s2) :
                 p6 \in {FxMul(p, z6)},
                 s2 \in {BigAdd(BigAdd(s, BigDivSmall(p, j).q),
                                BigAdd(BigDivSmall(FxMul(p, z2), j + 2).q,
                                       BigDivSmall(FxMul(p, z4), j + 4).q))}})

\* atanh(z) = z + z^3/3 + z^5/5 + ... for a fixed-point z in [0, 1/3]
Atanh(z0) ==
    The({The({The({AtanhSeries(z, z2, z4, FxMul(z2, z4), 1, << >>) :
                      z4 \in {FxMul(z2, z2)}}) : z2 \in {FxMul(z, z)}}) :
            z \in {z0}})

\* ln 2 to FracBits binary places
Ln2 == <<7580, 4728, 4951, 7415, 7144, 2143, 5678>>

\* ln(t * 2^k) for t = M / unit in (1/sqrt 2, sqrt 2]:
\* ln t = 2 atanh(|t - 1| / (t + 1))
LnOf(M, unit, k) ==
    The({The({The({IF BigCmp(M, unit) < 0
                   THEN BigSub(BigMulSmall(Ln2, k), l)
                   ELSE BigAdd(BigMulSmall(Ln2, k), l) :
                      l \in {BigMulSmall(Atanh(z), 2)}}) :
                 z \in {BigDivMod(BigShl(d, FracBits), BigAdd(M, unit)).q}}) :
            d \in {IF BigCmp(M, unit) < 0 THEN BigSub(unit, M)
                   ELSE BigSub(M, unit)}})

\* ln x (fixed point) for a double x >= 1
Ln(x0) ==
    The({IF BigCmp(BigMul(x.m, x.m), BigShl(<<1>>, 2 * Precision - 1)) > 0
         THEN LnOf(x.m, BigShl(<<1>>, Precision), x.e + Precision)
         ELSE LnOf(x.m, BigShl(<<1>>, Precision - 1), x.e + Precision - 1) :
            x \in {x0}})

RECURSIVE ExpSeries(_, _, _, _, _, _)
\* s + t + t r/(j + 1) + t r^2/((j + 1)(j + 2)) + ... for a term t = r^j/j!,
\* three terms at a time
ExpSeries(t, r, r2, r3, j, s) ==
    IF t = << >> THEN s
    ELSE The({ExpSeries(t3, r, r2, r3, j + 3, s2) :
                 t3 \in {BigDivSmall(FxMul(t, r3), (j + 1) * (j + 2) * (j + 3)).q},
                 s2 \in {BigAdd(BigAdd(s, t),
                                BigAdd(BigDivSmall(FxMul(t, r), j + 1).q,
                                       BigDivSmall(FxMul(t, r2),
                                                   (j + 1) * (j + 2)).q))}})

\* the double nearest to exp(r) for a fixed-point r >= 0:
\* r = n ln 2 + r1 with 0 <= r1 < ln 2, exp(r) = 2^n exp(r1)
Exp(r) ==
    The({The({The({The({RoundBig(FALSE, s, (IF qr.q = << >> THEN 0 ELSE qr.q[1])
                                           - FracBits, TRUE) :
                           s \in {ExpSeries(FxOne, qr.r, r2, r3, 0, << >>)}}) :
                      r3 \in {FxMul(r2, qr.r)}}) :
                 r2 \in {FxMul(qr.r, qr.r)}}) :
            qr \in {BigDivMod(r, Ln2)}})

\* Math.pow(x, y) for x >= 1, y > 0
Pow(x0, y0) ==
    The({The({The({Exp(r) : r \in {BigShr(BigMul(l, y.m), -y.e)}}) :
                 l \in {Ln(x)}}) : x \in {x0}, y \in {y0}})

\* Math.cbrt(x) for x >= 1
Cbrt(x0) ==
    The({The({Exp(r) : r \in {BigDivSmall(l, 3).q}}) : l \in {Ln(x0)}})

(***************************************************************************)
(* Warp calculator (warp-calculator.mjs): the conversions between warp     *)
(* factor and speed of the two models (TOS, TNG), and the calculations of  *)
(* time and of warp factor.  speedMultiplierToWarp runs one pass of its    *)
(* loop per step, so that every candidate of the solver is a state.        *)
(***************************************************************************)

\* the null sentinel of the calculator's functions
Null == [null |-> TRUE]

maxIterations == 50

\* the table with the speed of warp 9.4 mistyped
TNG_SPEED_ROWS_Mistyped ==
    << <<900, 151638>>, <<910, 157551>>, <<920, 164063>>, <<930, 171331>>,
       <<940, 169600>>, <<950, 189485>>, <<960, 201793>>, <<970, 218545>>,
       <<980, 245001>>, <<990, 302926>>, <<991, 313669>>, <<992, 326430>>,
       <<993, 341944>>, <<994, 361371>>, <<995, 386692>>, <<996, 421618>>,
       <<997, 474159>>, <<998, 566062>>, <<999, 791200>> >>

\* the rows of TNG_SPEED_TABLE as written, in hundredths: warp factor, speed
TNG_SPEED_ROWS ==
    << <<900, 151638>>, <<910, 157551>>, <<920, 164063>>, <<930, 171331>>,
       <<940, 179600>>, <<950, 189485>>, <<960, 201793>>, <<970, 218545>>,
       <<980, 245001>>, <<990, 302926>>, <<991, 313669>>, <<992, 326430>>,
       <<993, 341944>>, <<994, 361371>>, <<995, 386692>>, <<996, 421618>>,
       <<997, 474159>>, <<998, 566062>>, <<999, 791200>> >>

\* the numbers of the module's constants and of the literals of its
\* functions, as they are once the module is loaded
Literals ==
    [one |-> Decimal(1, 0), three |-> Decimal(3, 0), nine |-> Decimal(9, 0),
     ten |-> Decimal(10, 0),
     tenThirds |-> FDiv(Decimal(10, 0), Decimal(3, 0)),
     threeTenths |-> FDiv(Decimal(3, 0), Decimal(10, 0)),
     tolerance |-> Decimal(1, -9), h |-> Decimal(1, -8),
     flat |-> Decimal(1, -15), start |-> Decimal(95, -1),
     top |-> Decimal(999, -2), clamp |-> Decimal(9999, -3),
     LIGHT_YEARS_PER_DAY_AT_C |->
         FDiv(FMul(Decimal(299792458, -3), Decimal(86400, 0)), Decimal(9461, 9)),
     TNG_SPEED_TABLE |->
         [i \in 1..Len(TNG_SPEED_ROWS) |->
             [w |-> Decimal(TNG_SPEED_ROWS[i][1], -2),
              s |-> Decimal(TNG_SPEED_ROWS[i][2], -2)]] \o << >>]

tosWarpToSpeedMultiplier(warpFactor) ==
    The({IF FLt(w, lit.one) THEN w ELSE Pow(w, lit.three) : w \in {warpFactor}})

\* the cube root taken as a power of 1/3
tosSpeedMultiplierToWarpPow(speedMultiplier) ==
    The({IF FLe(s, Zero) THEN Null
         ELSE IF FLt(s, lit.one) THEN s
         ELSE Pow(s, FDiv(lit.one, lit.three)) : s \in {speedMultiplier}})

tosSpeedMultiplierToWarp(speedMultiplier) ==
    The({IF FLe(s, Zero) THEN Null
         ELSE IF FLt(s, lit.one) THEN s
         ELSE Cbrt(s) : s \in {speedMultiplier}})

\* s1 + t * (s2 - s1) with t = (w - w1) / (w2 - w1), for rows r1 and r2
Interpolate(w, r1, r2) ==
    The({FAdd(r1.s, FMul(t, FSub(r2.s, r1.s))) :
            t \in {FDiv(FSub(w, r1.w), FSub(r2.w, r1.w))}})

\* no row is looked for
NoRow(w, T) == 0

\* the first row i with T[i].w <= w <= T[i + 1].w, 0 when there is none
FirstRow(w, T) ==
    The({IF hits = {} THEN 0 ELSE CHOOSE i \in hits : \A j \in hits : i <= j :
            hits \in {{i \in 1..(Len(T) - 1) :
                         FGe(w, T[i].w) /\ FLe(w, T[i + 1].w)}}})

findSpeedAbove9(warpFactor) ==
    The({The({IF i # 0 THEN Interpolate(w, T[i], T[i + 1])
              ELSE Interpolate(w, T[Len(T) - 1], T[Len(T)]) :
                 i \in {FirstRow(w, T)}}) :
            w \in {warpFactor}, T \in {lit.TNG_SPEED_TABLE}})

\* warp 10 itself is looked up in the table
warpToSpeedMultiplierAboveTen(warpFactor) ==
    The({IF FLt(w, lit.one) THEN w
         ELSE IF FGt(w, lit.ten) THEN Infinity
         ELSE IF FLe(w, lit.nine) THEN Pow(w, lit.tenThirds)
         ELSE findSpeedAbove9(w) : w \in {warpFactor}})

warpToSpeedMultiplier(warpFactor) ==
    The({IF FLt(w, lit.one) THEN w
         ELSE IF FGe(w, lit.ten) THEN Infinity
         ELSE IF FLe(w, lit.nine) THEN Pow(w, lit.tenThirds)
         ELSE findSpeedAbove9(w) : w \in {warpFactor}})

\* a call that has returned `out`
Returned(fn, a, b, out) ==
    [done |-> TRUE, fn |-> fn, a |-> a, b |-> b, target |-> Null, w |-> Null,
     i |-> 0, out |-> out]

\* Math.max(Math.min(w, 1), 9.99)
SwappedEstimate(w) == FMax(FMin(w, lit.one), lit.top)

\* Math.min(Math.max(w, 1), 9.99)
BestEstimate(w) == FMin(FMax(w, lit.one), lit.top)

\* speedMultiplierToWarp up to its loop, called for `fn` with arguments a, b:
\* the call has returned, or it holds the first candidate w
EnterSolver(fn, a, b, speedMultiplier) ==
    The({IF FLe(s, Zero) THEN Returned(fn, a, b, Null)
         ELSE IF FLt(s, lit.one) THEN Returned(fn, a, b, s)
         ELSE IF ~isFinite(s) THEN Returned(fn, a, b, lit.ten)
         ELSE The({[done |-> FALSE, fn |-> fn, a |-> a, b |-> b, target |-> s,
                    w |-> IF FGt(w, lit.top) THEN lit.start ELSE w,
                    i |-> 0, out |-> Null] :
                      w \in {Pow(s, lit.threeTenths)}}) :
            s \in {speedMultiplier}})

\* the candidate after w as it is
Unclamped(w0) == w0

\* the candidate after w, kept in the valid range
Clamped(w0) ==
    The({IF FLt(w, lit.one) THEN lit.one
         ELSE IF FGt(w, lit.clamp) THEN lit.clamp ELSE w : w \in {w0}})

\* one pass of the loop of speedMultiplierToWarp on the call c
Pass(c) ==
    The({IF FLt(FAbs(fw), lit.tolerance)
         THEN [c EXCEPT !.done = TRUE, !.out = BestEstimate(c.w)]
         ELSE The({IF FLt(FAbs(derivative), lit.flat)
                   THEN [c EXCEPT !.done = TRUE, !.out = BestEstimate(c.w)]
                   ELSE [c EXCEPT !.w = Clamped(FSub(c.w, FDiv(fw, derivative))),
                                  !.i = c.i + 1] :
                      derivative \in
                          {FDiv(FSub(FSub(warpToSpeedMultiplier(FAdd(c.w, lit.h)),
                                          c.target), fw), lit.h)}}) :
            fw \in {FSub(warpToSpeedMultiplier(c.w), c.target)}})

\* the division without the test of the divisor
calculateTimeUnguarded(warpFactor, distanceLY) ==
    FDiv(distanceLY, FMul(warpToSpeedMultiplier(warpFactor),
                          lit.LIGHT_YEARS_PER_DAY_AT_C))

calculateTime(warpFactor, distanceLY) ==
    The({IF FLe(lyPerDay, Zero) THEN Infinity ELSE FDiv(distanceLY, lyPerDay) :
            lyPerDay \in {FMul(warpToSpeedMultiplier(warpFactor),
                               lit.LIGHT_YEARS_PER_DAY_AT_C)}})

\* calculateWarpFactor up to the loop of speedMultiplierToWarp
calculateWarpFactor(distanceLY, timeDays) ==
    IF FLe(timeDays, Zero)
    THEN Returned("calculateWarpFactor", distanceLY, timeDays, Null)
    ELSE EnterSolver("calculateWarpFactor", distanceLY, timeDays,
                     FDiv(FDiv(distanceLY, timeDays),
                          lit.LIGHT_YEARS_PER_DAY_AT_C))

(***************************************************************************)
(* The calls of the calculator.  The arguments are decimal numbers n * 10^k *)
(* written <<n, k>>, as a user types them or a caller writes them.         *)
(***************************************************************************)

MaxTos == 60
MaxTng == 32
MaxAbove9 == 200
MaxTarget == 9

NumberOf(x) == IF x = <<1, 400>> THEN Infinity ELSE Decimal(x[1], x[2])

RECURSIVE IntPow(_, _)
IntPow(b, n) == IF n = 0 THEN 1 ELSE b * IntPow(b, n - 1)

\* warp factors of the simple model: 1.00, 2.65, ... to 100.00 and beyond,
\* and factors below 1
TosWarps ==
    {<<100 + 165 * j, -2>> : j \in 0..MaxTos}
        \cup {<<0, 0>>, <<5, -1>>, <<99, -2>>, <<2, 0>>, <<-1, 0>>}

\* speeds of the simple model that are no warp speed
TosSpeeds == {<<0, 0>>, <<-8, 0>>, <<25, -2>>, <<1, 0>>, <<27, 0>>}

\* warp factors from 9.000 to 10.000 and beyond in steps of 0.005, which
\* holds the rows of the table, and factors below
Warps ==
    {<<9000 + 5 * j, -3>> : j \in 0..MaxAbove9}
        \cup {<<-2, 0>>, <<0, 0>>, <<5, -1>>, <<1, 0>>, <<5, 0>>, <<9, 0>>,
              <<12, 0>>, <<9000001, -6>>}

\* warp factors from 9.000 to 10.000 and beyond in steps of 0.005
TableWarps == {<<9000 + 5 * j, -3>> : j \in 0..MaxAbove9}

\* warp factors from 1.00 up in steps of 0.25
TngWarps == {<<100 + 25 * j, -2>> : j \in 0..MaxTng}

\* speeds: powers of 3, speeds at and about the rows of the table and the
\* end of the table, speeds that are no warp speed, and Infinity
Speeds ==
    {<<IntPow(3, j), 0>> : j \in 0..MaxTarget}
        \cup {<<151638, -2>>, <<15163811, -4>>, <<189485, -2>>, <<7912, 0>>,
              <<9938, 0>>, <<1, 6>>, <<0, 0>>, <<-3, 0>>, <<5, -1>>, <<1, 400>>}

Distances == {<<0, 0>>, <<1, 0>>, <<165, -1>>, <<-4, 0>>}

Times == {<<0, 0>>, <<-1, 0>>, <<1, 0>>, <<36525, -2>>}

TimeWarps == {<<0, 0>>, <<-1, 0>>, <<5, -1>>, <<1, 0>>, <<5, 0>>, <<95, -1>>, <<10, 0>>}

calculateDistance(warpFactor, timeDays) ==
    FMul(FMul(warpToSpeedMultiplier(warpFactor), lit.LIGHT_YEARS_PER_DAY_AT_C),
         timeDays)

calculateDistanceTos(warpFactor, timeDays) ==
    FMul(FMul(tosWarpToSpeedMultiplier(warpFactor), lit.LIGHT_YEARS_PER_DAY_AT_C),
         timeDays)

calculateWarpFactorTos(distanceLY, timeDays) ==
    IF FLe(timeDays, Zero) THEN Null
    ELSE tosSpeedMultiplierToWarp(FDiv(FDiv(distanceLY, timeDays),
                                       lit.LIGHT_YEARS_PER_DAY_AT_C))

\* the name of the call computeResults(null, distance, time, formulaType)
ResultsFn(formulaType) ==
    IF formulaType = "tos" THEN "computeResults(tos)" ELSE "computeResults(tng)"

\* every warp factor is shown

\* the `valid` of the result of computeResults, c being the call that has
\* returned the calculated warp factor
Valid(c) == c.out # Null /\ isFinite(c.out)

\* computeResults(null, distance, time, formulaType) up to the loop of
\* speedMultiplierToWarp: the call holds the calculated warp factor, null
\* when fewer than two values are given
computeResults(distance, time, formulaType) ==
    The({IF ~(FGt(d, Zero) /\ FGt(t, Zero))
         THEN Returned(ResultsFn(formulaType), d, t, Null)
         ELSE IF formulaType = "tos"
         THEN Returned(ResultsFn(formulaType), d, t, calculateWarpFactorTos(d, t))
         ELSE [calculateWarpFactor(d, t) EXCEPT !.fn = ResultsFn(formulaType)] :
            d \in {distance}, t \in {time}})

\* the values entered for a result: distances and times
ResultDistances == {<<0, 0>>, <<1, 0>>, <<165, -1>>, <<100, 0>>}

ResultTimes == {<<0, 0>>, <<1, 0>>, <<36525, -2>>}

\* the module is loaded and no function is called yet
InitWarp ==
    /\ GraphInit /\ rebuildOnSave = TRUE /\ isGM = TRUE
    /\ RefsIdle /\ MergeIdle /\ RenderIdle /\ AppIdle
    /\ lit = Literals
    /\ calc = Pending

\* tosSpeedMultiplierToWarp(tosWarpToSpeedMultiplier(w))
TosRoundTrip(x) ==
    /\ calc = Pending
    /\ calc' = The({The({Returned("tosRoundTrip", w, s, tosSpeedMultiplierToWarp(s)) :
                            s \in {tosWarpToSpeedMultiplier(w)}}) :
                       w \in {NumberOf(x)}})
    /\ UNCHANGED <<lit, graphVars, refVars, mergeVars, renderVars, appVars>>

TosInverse(x) ==
    /\ calc = Pending
    /\ calc' = The({Returned("tosSpeedMultiplierToWarp", s, Null,
                             tosSpeedMultiplierToWarp(s)) : s \in {NumberOf(x)}})
    /\ UNCHANGED <<lit, graphVars, refVars, mergeVars, renderVars, appVars>>

Forward(x) ==
    /\ calc = Pending
    /\ calc' = The({Returned("warpToSpeedMultiplier", w, Null,
                             warpToSpeedMultiplier(w)) : w \in {NumberOf(x)}})
    /\ UNCHANGED <<lit, graphVars, refVars, mergeVars, renderVars, appVars>>

CalculateTime(x, y) ==
    /\ calc = Pending
    /\ calc' = The({Returned("calculateTime", w, d, calculateTime(w, d)) :
                       w \in {NumberOf(x)}, d \in {NumberOf(y)}})
    /\ UNCHANGED <<lit, graphVars, refVars, mergeVars, renderVars, appVars>>

CalculateWarpFactor(x, y) ==
    /\ calc = Pending
    /\ calc' = The({calculateWarpFactor(d, t) :
                       d \in {NumberOf(x)}, t \in {NumberOf(y)}})
    /\ UNCHANGED <<lit, graphVars, refVars, mergeVars, renderVars, appVars>>

\* findSpeedAbove9(w): the call holds the row found (0: none) as i
FindSpeed(x) ==
    /\ calc = Pending
    /\ calc' = The({[Returned("findSpeedAbove9", w, Null, findSpeedAbove9(w))
                        EXCEPT !.i = FirstRow(w, lit.TNG_SPEED_TABLE)] :
                       w \in {NumberOf(x)}})
    /\ UNCHANGED <<lit, graphVars, refVars, mergeVars, renderVars, appVars>>

\* the calculator computes its results from a distance and a time
ComputeResults(x, y, formulaType) ==
    /\ calc = Pending
    /\ calc' = computeResults(NumberOf(x), NumberOf(y), formulaType)
    /\ UNCHANGED <<lit, graphVars, refVars, mergeVars, renderVars, appVars>>

\* speedMultiplierToWarp(s) is called
Inverse(x) ==
    /\ calc = Pending
    /\ calc' = The({EnterSolver("speedMultiplierToWarp", s, Null, s) :
                       s \in {NumberOf(x)}})
    /\ UNCHANGED <<lit, graphVars, refVars, mergeVars, renderVars, appVars>>

\* speedMultiplierToWarp(warpToSpeedMultiplier(w)) is called
RoundTrip(x) ==
    /\ calc = Pending
    /\ calc' = The({The({EnterSolver("roundTrip", w, s, s) :
                            s \in {warpToSpeedMultiplier(w)}}) :
                       w \in {NumberOf(x)}})
    /\ UNCHANGED <<lit, graphVars, refVars, mergeVars, renderVars, appVars>>

\* one pass of the loop
Iterate ==
    /\ calc # Pending /\ ~calc.done /\ calc.i < maxIterations
    /\ calc' = Pass(calc)
    /\ UNCHANGED <<lit, graphVars, refVars, mergeVars, renderVars, appVars>>

\* the loop ends after maxIterations passes: the best estimate is returned
Exhausted ==
    /\ calc # Pending /\ ~calc.done /\ calc.i = maxIterations
    /\ calc' = [calc EXCEPT !.done = TRUE, !.out = BestEstimate(calc.w)]
    /\ UNCHANGED <<lit, graphVars, refVars, mergeVars, renderVars, appVars>>

NextWarp ==
    \/ \E x \in TosWarps : TosRoundTrip(x)
    \/ \E x \in TosSpeeds : TosInverse(x)
    \/ \E x \in Warps : Forward(x)
    \/ \E x \in TimeWarps : \E y \in Distances : CalculateTime(x, y)
    \/ \E x \in Distances : \E y \in Times : CalculateWarpFactor(x, y)
    \/ \E x \in Speeds : Inverse(x)
    \/ \E x \in TableWarps : FindSpeed(x)
    \/ \E x \in ResultDistances : \E y \in ResultTimes :
          \E formulaType \in {"tng", "tos"} : ComputeResults(x, y, formulaType)
    \/ \E x \in TngWarps : RoundTrip(x)
    \/ Iterate
    \/ Exhausted

SpecWarp == InitWarp /\ [][NextWarp]_vars

(***************************************************************************)
(* Properties of the warp calculator.                                      *)
(***************************************************************************)

\* the call fn has returned
Done(fn) == calc.done /\ calc.fn = fn

\* the double nearest to w^3
Cube(w) == RoundBig(w.neg, BigMul(BigMul(w.m, w.m), w.m), 3 * w.e, FALSE)

C15_WarpTen ==
    /\ (Done("warpToSpeedMultiplier") /\ calc.a = lit.ten) => calc.out = Infinity
    /\ Done("speedMultiplierToWarp") =>
          IF calc.a = Infinity THEN calc.out = lit.ten
          ELSE /\ calc.out # lit.ten
               /\ FGt(calc.a, Zero) => (calc.out # Null /\ FLt(calc.out, lit.ten))

C15_Witness ==
    /\ Done("speedMultiplierToWarp")
    /\ calc.a = Infinity
    /\ calc.out = Decimal(10, 0)

\* C16: the TNG model.  For every warp factor w in [1, 9]
\* speedMultiplierToWarp(warpToSpeedMultiplier(w)) is a number that differs
\* from w by at most 1e-6.
C16_TngRoundTrip ==
    (Done("roundTrip") /\ FGe(calc.a, lit.one) /\ FLe(calc.a, lit.nine)) =>
        /\ calc.out # Null
        /\ FLe(FAbs(FSub(calc.out, calc.a)), Decimal(1, -6))

C16_Witness ==
    /\ Done("roundTrip")
    /\ calc.a = Decimal(525, -2)
    /\ calc.b = Pow(calc.a, lit.tenThirds)
    /\ FLe(FAbs(FSub(calc.out, calc.a)), Decimal(1, -6))

\* the call runs the loop of speedMultiplierToWarp, or has run it
Solving == calc # Pending /\ calc.target # Null

C18_NullSentinel ==
    /\ (Done("speedMultiplierToWarp") \/ Done("tosSpeedMultiplierToWarp"))
          => (calc.out # NaN /\ (calc.out = Null <=> FLe(calc.a, Zero)))
    /\ Done("calculateWarpFactor")
          => (calc.out # NaN /\ (calc.out = Null <=> FLe(calc.b, Zero)))

\* C19: calculateWarpFactor(0, time) for a time > 0 is a number <= 1.
C19_ZeroDistance ==
    (Done("calculateWarpFactor") /\ calc.a = Zero /\ FGt(calc.b, Zero)) =>
        (calc.out # Null /\ FLe(calc.out, lit.one))

\* C20: calculateTime(w, d) is d / (speed multiplier of w *
\* LIGHT_YEARS_PER_DAY_AT_C) when the speed multiplier of w is positive,
\* the divisor then not being zero, and Infinity for every d when the
\* speed multiplier of w is zero.
C20_CalculateTime ==
    Done("calculateTime") =>
        /\ FGt(warpToSpeedMultiplier(calc.a), Zero) =>
              /\ FMul(warpToSpeedMultiplier(calc.a), lit.LIGHT_YEARS_PER_DAY_AT_C) # Zero
              /\ calc.out = FDiv(calc.b, FMul(warpToSpeedMultiplier(calc.a),
                                              lit.LIGHT_YEARS_PER_DAY_AT_C))
        /\ warpToSpeedMultiplier(calc.a) = Zero => calc.out = Infinity

C20_Witness ==
    /\ Done("calculateTime")
    /\ calc.a = Decimal(5, 0) /\ calc.b = Decimal(165, -1)
    /\ calc.out # Infinity /\ FGt(calc.out, Zero)

\* C21: the table.  TNG_SPEED_TABLE is strictly increasing in both columns,
\* its first row is at warp 9.0 and its last at 9.99, and findSpeedAbove9
\* finds for every w in [9.0, 9.99] two adjacent rows with w1 <= w <= w2:
\* it extrapolates only for w > 9.99.
C21_TableInvariant ==
    lit # << >> =>
        /\ \A i \in 1..(Len(lit.TNG_SPEED_TABLE) - 1) :
              /\ FLt(lit.TNG_SPEED_TABLE[i].w, lit.TNG_SPEED_TABLE[i + 1].w)
              /\ FLt(lit.TNG_SPEED_TABLE[i].s, lit.TNG_SPEED_TABLE[i + 1].s)
        /\ lit.TNG_SPEED_TABLE[1].w = Decimal(9, 0)
        /\ lit.TNG_SPEED_TABLE[Len(lit.TNG_SPEED_TABLE)].w = Decimal(999, -2)
        /\ Done("findSpeedAbove9") =>
              /\ (FGe(calc.a, Decimal(9, 0)) /\ FLe(calc.a, Decimal(999, -2)))
                    => calc.i # 0
              /\ calc.i # 0 =>
                    /\ calc.i \in 1..(Len(lit.TNG_SPEED_TABLE) - 1)
                    /\ FLe(lit.TNG_SPEED_TABLE[calc.i].w, calc.a)
                    /\ FLe(calc.a, lit.TNG_SPEED_TABLE[calc.i + 1].w)
              /\ calc.i = 0 => FGt(calc.a, Decimal(999, -2))

C21_Witness ==
    /\ Done("findSpeedAbove9")
    /\ calc.a = Decimal(9905, -3)
    /\ calc.i = 10
    /\ lit.TNG_SPEED_TABLE[10].w = Decimal(99, -1)
    /\ lit.TNG_SPEED_TABLE[11].w = Decimal(991, -2)

\* C27: the results shown.  When computeResults has solved for the warp
\* factor from a distance > 0 and a time > 0 and its result is valid, the
\* warp factor w shown gives the distance: calculateDistance(w, time) is
\* the distance within the tolerance, for both formulas and every speed.
C27_ConsistentTriple ==
    /\ (Done("computeResults(tng)") /\ Valid(calc)) =>
          FLe(FAbs(FSub(calculateDistance(calc.out, calc.b), calc.a)),
              Decimal(1, -6))
    /\ (Done("computeResults(tos)") /\ Valid(calc)) =>
          FLe(FAbs(FSub(calculateDistanceTos(calc.out, calc.b), calc.a)),
              Decimal(1, -6))

\* C30: no dip above warp 9.  For every w in (9, 9.99]
\* warpToSpeedMultiplier(w) >= warpToSpeedMultiplier(9) = 9^(10/3).
C30_MonotoneAcrossNine ==
    (/\ Done("warpToSpeedMultiplier")
     /\ FGt(calc.a, lit.nine) /\ FLe(calc.a, lit.top)) =>
        FGe(calc.out, warpToSpeedMultiplier(lit.nine))

(***************************************************************************)
(* update() step by step.  A run is suspended at each await: after         *)
(* getFlag has read the target's referencedBy, and while a setFlag is on   *)
(* its way to the host.  The runs are those of two saves on one client, or *)
(* of two clients whose copies of the documents the host keeps in step: a  *)
(* setFlag takes effect when the host answers it.                          *)
(***************************************************************************)

\* the two runs
Runs == {"first", "second"}

\* how many runs are started
MaxStarts == 3

IdleRun ==
    [pc |-> "idle", entity |-> NULL, entityType |-> << >>, refs |-> << >>,
     existing |-> << >>, updated |-> << >>, outdated |-> << >>,
     target |-> NULL, found |-> FALSE, links |-> EmptyObj, nth |-> 0]

RECURSIVE RemoveNext(_, _)
\* the loop "Remove outdated references" from the head of run.outdated up to
\* its next await; after the loop, the call of setFlag for references
RemoveNext(run, fl) ==
    IF run.outdated = << >> THEN [run EXCEPT !.pc = "final"]
    ELSE LET target == fromUuidSync(Head(run.outdated))
             rest   == [run EXCEPT !.outdated = Tail(run.outdated)]
         IN  IF target = NULL THEN RemoveNext(rest, fl)
             ELSE [rest EXCEPT !.pc = "gotLinksR", !.target = target,
                               !.found = HasFlag(fl, target, S_referencedBy),
                               !.links = LinksOf(fl, target)]

RECURSIVE AddNext(_, _)
\* the loop "Add new references" from the head of run.refs up to its next
\* await; after the loop, the filter of the outdated references
AddNext(run, fl) ==
    IF run.refs = << >>
    THEN RemoveNext([run EXCEPT !.outdated = Outdated(run.existing, run.updated)], fl)
    ELSE
    LET reference  == FullReference(Head(run.refs), run.entity, run.entityType)
        rest       == [run EXCEPT !.refs = Tail(run.refs)]
        pushed     == [rest EXCEPT !.updated = Append(run.updated, reference)]
        referenced == fromUuidSync(reference)
    IN  IF AlreadyUpdated(run.updated, reference) THEN AddNext(rest, fl)
        ELSE IF Includes(run.existing, reference) THEN AddNext(pushed, fl)
        ELSE IF referenced = NULL THEN AddNext(pushed, fl)
        ELSE [pushed EXCEPT !.pc = "gotLinks", !.target = referenced,
                            !.found = HasFlag(fl, referenced, S_referencedBy),
                            !.links = LinksOf(fl, referenced)]

\* the parts other than the reference graph and the runs
notRace == <<refVars, mergeVars, renderVars, warpVars, startup, dialog, fatigue, traits>>

\* a pre-update handler calls update(entity, type, text, false), which runs up
\* to its first await, and the host applies the change: a page hands over the
\* new text, an actor the content it holds
StartUpdate(r, entity, c) ==
    /\ runs[r].pc \in {"idle", "done"}
    /\ runs["first"].nth + runs["second"].nth < MaxStarts
    /\ ~Gated(FALSE, rebuildOnSave)
    /\ c \in Menu(entity)
    /\ runs' = [runs EXCEPT ![r] =
                   AddNext([IdleRun EXCEPT
                               !.entity = entity,
                               !.entityType = docType(entity),
                               !.refs = ReferencesOf[
                                   IF entity \in Pages THEN c
                                   ELSE getContent(content, entity, docType(entity))],
                               !.existing = ExistingReferences(flags, entity),
                               !.nth = runs[r].nth + 1],
                           flags)]
    /\ content' = [content EXCEPT ![entity] = c]
    /\ UNCHANGED <<flags, rebuildOnSave, isGM, op, notRace>>

\* the run goes on after `await referenced.getFlag(...)` of the first loop:
\* it skips the target or calls setFlag with the links it read
AfterGetFlag(r) ==
    /\ runs[r].pc = "gotLinks"
    /\ LET run == runs[r]
           linksOfType == LinksOfType(run.links, run.entityType)
       IN  runs' = [runs EXCEPT ![r] =
                       IF AlreadyLinked(linksOfType, uuid(run.entity))
                       THEN AddNext(run, flags)
                       ELSE [run EXCEPT
                                !.pc = "setting",
                                !.links = SetKey(run.links, run.entityType,
                                                 Append(linksOfType, uuid(run.entity)))]]
    /\ UNCHANGED <<graphVars, notRace>>

\* the run goes on after `await target.getFlag(...)` of the second loop
AfterGetFlagOutdated(r) ==
    /\ runs[r].pc = "gotLinksR"
    /\ LET run == runs[r]
           linksOfType == LinksOfType(run.links, run.entityType)
           outdatedIdx == IndexOf(linksOfType, uuid(run.entity))
       IN  runs' = [runs EXCEPT ![r] =
                       IF ~run.found THEN RemoveNext(run, flags)
                       ELSE IF outdatedIdx > 0
                       THEN [run EXCEPT
                                !.pc = "settingR",
                                !.links = WithoutEntity(run.links, run.entityType,
                                                        Splice1(linksOfType, outdatedIdx))]
                       ELSE RemoveNext(run, flags)]
    /\ UNCHANGED <<graphVars, notRace>>

\* the host answers the setFlag of the first loop: the links the run sent are
\* stored, and the run goes on to its next await
AfterSetFlag(r) ==
    /\ runs[r].pc = "setting"
    /\ LET fl == SetReferencedBy(flags, runs[r].target, runs[r].links)
       IN  /\ flags' = fl
           /\ runs' = [runs EXCEPT ![r] = AddNext(runs[r], fl)]
    /\ UNCHANGED <<content, rebuildOnSave, isGM, op, notRace>>

\* the host answers the setFlag of the second loop
AfterSetFlagOutdated(r) ==
    /\ runs[r].pc = "settingR"
    /\ LET fl == SetReferencedBy(flags, runs[r].target, runs[r].links)
       IN  /\ flags' = fl
           /\ runs' = [runs EXCEPT ![r] = RemoveNext(runs[r], fl)]
    /\ UNCHANGED <<content, rebuildOnSave, isGM, op, notRace>>

\* the host answers entity.setFlag(FLAG_SCOPE, "references", updated)
Finish(r) ==
    /\ runs[r].pc = "final"
    /\ flags' = SetReferences(flags, runs[r].entity, runs[r].updated)
    /\ runs' = [runs EXCEPT ![r].pc = "done"]
    /\ UNCHANGED <<content, rebuildOnSave, isGM, op, notRace>>

\* a GM's world with rebuildOnSave on; no run is started
InitRace ==
    /\ GraphInit /\ rebuildOnSave = TRUE /\ isGM = TRUE
    /\ RefsIdle /\ MergeIdle /\ RenderIdle /\ WarpIdle
    /\ startup = << >> /\ dialog = << >> /\ fatigue = << >> /\ traits = << >>
    /\ runs = [r \in Runs |-> IdleRun]

NextRace ==
    \/ \E r \in Runs : \E d \in Scanned : \E c \in Menu(d) : StartUpdate(r, d, c)
    \/ \E r \in Runs : AfterGetFlag(r)
    \/ \E r \in Runs : AfterGetFlagOutdated(r)
    \/ \E r \in Runs : AfterSetFlag(r)
    \/ \E r \in Runs : AfterSetFlagOutdated(r)
    \/ \E r \in Runs : Finish(r)

SpecRace == InitRace /\ [][NextRace]_vars

\* the list a run holds for its kind in the links it sent
SentList(r) == LinksOfType(runs[r].links, runs[r].entityType)

\* C23: the answer to a run's setFlag stores the list the run built from what
\* it had read, whatever another run has stored since, and the answer to the
\* last setFlag stores the run's list `updated` as the references.
C23_LastWriteWins ==
    [][\A r \in Runs :
          /\ (runs[r].pc \in {"setting", "settingR"} /\ runs'[r] # runs[r]) =>
                 LinksOfType(LinksOf(flags', runs[r].target), runs[r].entityType)
                     = SentList(r)
          /\ (runs[r].pc = "final" /\ runs'[r] # runs[r]) =>
                 ExistingReferences(flags', runs[r].entity) = runs[r].updated]_vars

\* both runs are complete, for two sources whose stored references name the
\* same target; the target's referencedBy names one of the sources and not
\* the other, whose entry the later write replaced
C23_Witness ==
    /\ \A r \in Runs : runs[r].pc = "done"
    /\ runs["first"].entity # runs["second"].entity
    /\ \E t \in Docs : \E r, q \in Runs :
           /\ Includes(ExistingReferences(flags, runs[r].entity), uuid(t))
           /\ Includes(ExistingReferences(flags, runs[q].entity), uuid(t))
           /\ ReferencedBy(t, runs[q].entityType, uuid(runs[q].entity))
           /\ ~ReferencedBy(t, runs[r].entityType, uuid(runs[r].entity))

(***************************************************************************)
(* The initial sync.  On "ready" a GM's client calls checkInitialSync; the *)
(* world setting backlinksLastSyncedVersion outlives the session.          *)
(***************************************************************************)

SYNC_VERSION == 3

\* how many times the GM's client is loaded
MaxSessions == 2

\* the test of checkInitialSync with the version that is current included
StaleOrCurrent(lastSynced) == lastSynced <= SYNC_VERSION

\* lastSynced < SYNC_VERSION
Stale(lastSynced) == lastSynced < SYNC_VERSION

\* the parts other than the reference graph and the initial sync
notStartup == <<refVars, mergeVars, renderVars, warpVars, raceVars, dialog, fatigue, traits>>

\* checkInitialSync(), called once the client is ready: it starts sync() or
\* skips it
CheckInitialSync ==
    /\ isGM
    /\ ~startup.checked
    /\ startup' = [startup EXCEPT
                      !.checked = TRUE,
                      !.sync = IF Stale(startup.lastSynced) THEN "running" ELSE "skipped"]
    /\ UNCHANGED <<graphVars, notStartup>>

\* sync() runs to its end and its promise is fulfilled: the callback of then()
\* stores SYNC_VERSION
SyncFulfilled ==
    /\ startup.sync = "running"
    /\ flags' = sync(flags, content)
    /\ op' = [NoOp EXCEPT !.name = "sync", !.again = (op.name = "sync")]
    /\ startup' = [startup EXCEPT !.sync = "complete", !.lastSynced = SYNC_VERSION,
                                  !.completed = startup.completed + 1]
    /\ UNCHANGED <<content, rebuildOnSave, isGM, notStartup>>

\* an awaited unsetFlag or setFlag of sync() throws, at once or after phase 1:
\* the promise is rejected and the callback of then() is not called
SyncRejected ==
    /\ startup.sync = "running"
    /\ flags' \in {flags, WipeReferencedBy(flags, WipeList)}
    /\ op' = [NoOp EXCEPT !.name = "sync failed"]
    /\ startup' = [startup EXCEPT !.sync = "failed"]
    /\ UNCHANGED <<content, rebuildOnSave, isGM, notStartup>>

\* the client is loaded again; a sync that was running ends with the page
Reload ==
    /\ startup.session < MaxSessions
    /\ startup' = [startup EXCEPT !.session = startup.session + 1,
                                  !.checked = FALSE, !.sync = "none"]
    /\ UNCHANGED <<graphVars, notStartup>>

\* a page is saved with rebuildOnSave off: the links of its text are not
\* recorded before the next sync
SaveUnrecorded(entity, c) ==
    /\ entity \in Pages
    /\ c \in Menu(entity)
    /\ c # content[entity]
    /\ Gated(FALSE, rebuildOnSave)
    /\ content' = [content EXCEPT ![entity] = c]
    /\ op' = [NoOp EXCEPT !.name = "save"]
    /\ UNCHANGED <<flags, rebuildOnSave, isGM, startup, notStartup>>

\* a world whose stored version is the default 0, that of an older release or
\* the current one; the GM's client is loaded and "ready" has not run
InitStartup ==
    /\ GraphInit /\ rebuildOnSave = FALSE /\ isGM = TRUE
    /\ RefsIdle /\ MergeIdle /\ RenderIdle /\ WarpIdle /\ RaceIdle
    /\ dialog = << >> /\ fatigue = << >> /\ traits = << >>
    /\ \E v \in 0..SYNC_VERSION :
           startup = [lastSynced |-> v, session |-> 1, checked |-> FALSE,
                      sync |-> "none", completed |-> 0]

NextStartup ==
    \/ CheckInitialSync
    \/ SyncFulfilled
    \/ SyncRejected
    \/ Reload
    \/ \E d \in Pages : \E c \in Menu(d) : SaveUnrecorded(d, c)

SpecStartup == InitStartup /\ [][NextStartup]_vars

\* C25: checkInitialSync starts a sync if and only if the stored version is
\* below SYNC_VERSION; the stored version changes only in the step in which a
\* running sync completes, and then to SYNC_VERSION: not while the sync runs,
\* and not when it fails; and once the stored version is SYNC_VERSION it stays
\* and no sync is started.
C25_InitialSyncOrdering ==
    [][/\ (~startup.checked /\ startup'.checked) =>
              (startup'.sync = "running" <=> startup.lastSynced < SYNC_VERSION)
       /\ startup'.lastSynced # startup.lastSynced =>
              /\ startup.sync = "running" /\ startup'.sync = "complete"
              /\ op'.name = "sync"
              /\ startup'.lastSynced = SYNC_VERSION
       /\ startup.lastSynced = SYNC_VERSION =>
              /\ startup'.lastSynced = SYNC_VERSION
              /\ startup'.sync # "running"]_vars

\* a sync completed and stored the version in a world with links, the client
\* was loaded again and its check started no sync
C25_Witness ==
    /\ startup.completed = 1
    /\ startup.lastSynced = SYNC_VERSION
    /\ startup.checked /\ startup.sync = "skipped"
    /\ \E d \in Docs : LinksOf(flags, d) # EmptyObj

(***************************************************************************)
(* The warp calculator window (WarpCalculatorApp) and the promise that     *)
(* openWarpCalculator returns.                                             *)
(***************************************************************************)

\* how many clicks and calls of close() are followed
MaxEvents == 4

\* the parts other than the window
notDialog == <<graphVars, refVars, mergeVars, renderVars, warpVars, raceVars,
               startup, fatigue, traits>>

\* _resolveOnce without its test of _resolved
resolveEach(d, value) ==
    [d EXCEPT !.resolved = TRUE,
              !.calls = d.calls + 1,
              !.promise = IF d.promise = "pending" THEN value ELSE d.promise]

\* _resolveOnce(value): the first call calls resolve(value), which settles the
\* promise
resolveOnce(d, value) ==
    IF d.resolved THEN d
    ELSE [d EXCEPT !.resolved = TRUE,
                   !.calls = d.calls + 1,
                   !.promise = IF d.promise = "pending" THEN value ELSE d.promise]

\* close(options): _resolveOnce(false), then super.close(options) starts to
\* take the window away
close(d) ==
    [resolveOnce(d, "false") EXCEPT
        !.window = IF d.window = "rendered" THEN "closing" ELSE d.window]

\* openWarpCalculator(): the window is rendered, and the first calculation, of
\* no values, disables the Send button
OpenWarpCalculator ==
    /\ dialog.window = "none"
    /\ dialog' = [dialog EXCEPT !.window = "rendered", !.sendDisabled = TRUE]
    /\ UNCHANGED notDialog

\* an input event: updateCalculation sets sendButton.disabled = !result.valid
Input(valid) ==
    /\ dialog.window \in {"rendered", "closing"}
    /\ dialog.sendDisabled # ~valid
    /\ dialog' = [dialog EXCEPT !.sendDisabled = ~valid]
    /\ UNCHANGED notDialog

\* a click on Send: sendResultsToChat, _resolveOnce(true), close()
SendClick ==
    /\ dialog.window \in {"rendered", "closing"}
    /\ ~dialog.sendDisabled
    /\ Len(dialog.log) < MaxEvents
    /\ dialog' = [close(resolveOnce(dialog, "true")) EXCEPT
                     !.log = Append(dialog.log, "send"),
                     !.sent = dialog.sent + 1]
    /\ UNCHANGED notDialog

\* a click on Close: _resolveOnce(false), close()
CloseClick ==
    /\ dialog.window \in {"rendered", "closing"}
    /\ Len(dialog.log) < MaxEvents
    /\ dialog' = [close(resolveOnce(dialog, "false")) EXCEPT
                     !.log = Append(dialog.log, "close click")]
    /\ UNCHANGED notDialog

\* close() called by the window's header button, by Escape or by a script
Close ==
    /\ dialog.window # "none"
    /\ Len(dialog.log) < MaxEvents
    /\ dialog' = [close(dialog) EXCEPT !.log = Append(dialog.log, "close()")]
    /\ UNCHANGED notDialog

\* super.close() is done: the window and its buttons are gone
Closed ==
    /\ dialog.window = "closing"
    /\ dialog' = [dialog EXCEPT !.window = "closed"]
    /\ UNCHANGED notDialog

\* the application is constructed with the promise's resolve
InitDialog ==
    /\ GraphInit /\ rebuildOnSave = TRUE /\ isGM = TRUE
    /\ RefsIdle /\ MergeIdle /\ RenderIdle /\ WarpIdle /\ RaceIdle
    /\ startup = << >> /\ fatigue = << >> /\ traits = << >>
    /\ dialog = [window |-> "none", resolved |-> FALSE, calls |-> 0,
                 promise |-> "pending", sendDisabled |-> FALSE, log |-> << >>,
                 sent |-> 0]

NextDialog ==
    \/ OpenWarpCalculator
    \/ \E valid \in BOOLEAN : Input(valid)
    \/ SendClick
    \/ CloseClick
    \/ Close
    \/ Closed

SpecDialog == InitDialog /\ [][NextDialog]_vars

\* C26: resolve is called at most once; before the first Send click, Close
\* click or call of close() the promise is pending, and from then on it is
\* settled to true when that first event was a Send click (a message was
\* posted to chat) and to false otherwise.
C26_ResolvedOnce ==
    dialog # << >> =>
        /\ dialog.calls <= 1
        /\ dialog.log = << >> => dialog.promise = "pending"
        /\ dialog.log # << >> =>
               /\ dialog.calls = 1
               /\ dialog.promise = "true" <=> (Head(dialog.log) = "send")
               /\ dialog.promise = "false" <=> (Head(dialog.log) # "send")
               /\ Head(dialog.log) = "send" => dialog.sent >= 1

\* a Send click, then a Close click and a call of close() while the window is
\* on its way out: the promise stays true
C26_Witness ==
    /\ dialog # << >>
    /\ dialog.log = <<"send", "close click", "close()">>
    /\ dialog.promise = "true" /\ dialog.calls = 1

(***************************************************************************)
(* Fatigue: the updateActor hook of installStressMonitoringHook, on the    *)
(* client that handles fatigue for two characters that can be fatigued.    *)
(***************************************************************************)

Actors == {"Kirk", "Spock"}

\* system.stress.max of the characters; stress is 0..MaxStress
MaxStress == 2

\* the parts other than fatigue
notFatigue == <<graphVars, refVars, mergeVars, renderVars, warpVars, raceVars,
                startup, dialog, traits>>

\* findFatiguedTrait(actor): the actor has a Fatigued trait
findFatiguedTrait(f, actor) == f.items[actor] > 0

\* the body of the hook for an update of system.stress.value of `actor`, run
\* when the update is applied: it returns while an operation for the actor is
\* in progress, and else starts the creation or the deletion that the stress
\* asks for
onUpdateActor(f, actor) ==
    LET isFatigued == f.stress[actor] >= MaxStress
        existingFatiguedTrait == findFatiguedTrait(f, actor)
    IN  IF actor \in f.inProgress THEN f
        ELSE IF isFatigued /\ ~existingFatiguedTrait
        THEN [f EXCEPT !.inProgress = f.inProgress \cup {actor},
                       !.ops[actor] = Append(f.ops[actor],
                                             [kind |-> "create", at |-> "timeout", ids |-> 0])]
        ELSE IF ~isFatigued /\ existingFatiguedTrait
        THEN [f EXCEPT !.inProgress = f.inProgress \cup {actor},
                       !.ops[actor] = Append(f.ops[actor],
                                             [kind |-> "delete", at |-> "deleteEmbeddedDocuments",
                                              ids |-> f.items[actor]])]
        ELSE f

\* the finally block: the operation is over and the actor's id is taken out
\* of _fatigueOperationInProgress
Finally(f, actor, i) ==
    [f EXCEPT !.inProgress = f.inProgress \ {actor},
              !.ops[actor] = SubSeq(f.ops[actor], 1, i - 1)
                                 \o SubSeq(f.ops[actor], i + 1, Len(f.ops[actor]))]

\* the actor's stress is set to another value and the hook runs
UpdateStress(actor, value) ==
    /\ value # fatigue.stress[actor]
    /\ fatigue' = onUpdateActor([fatigue EXCEPT !.stress[actor] = value], actor)
    /\ UNCHANGED notFatigue

\* the 50 ms of the creation are over: it ends when a trait is found, and else
\* calls createFatiguedTrait
Recheck(actor, i) ==
    /\ i \in 1..Len(fatigue.ops[actor])
    /\ fatigue.ops[actor][i].at = "timeout"
    /\ fatigue' = IF findFatiguedTrait(fatigue, actor)
                  THEN Finally(fatigue, actor, i)
                  ELSE [fatigue EXCEPT !.ops[actor][i].at = "createEmbeddedDocuments"]
    /\ UNCHANGED notFatigue

\* createFatiguedTrait is done: the trait is on the actor, with its flags
Created(actor, i) ==
    /\ i \in 1..Len(fatigue.ops[actor])
    /\ fatigue.ops[actor][i].at = "createEmbeddedDocuments"
    /\ fatigue.ops[actor][i].kind = "create"
    /\ fatigue' = Finally([fatigue EXCEPT !.items[actor] = fatigue.items[actor] + 1],
                          actor, i)
    /\ UNCHANGED notFatigue

\* deleteAllFatigueTraits is done: the traits it had found are deleted
Deleted(actor, i) ==
    /\ i \in 1..Len(fatigue.ops[actor])
    /\ fatigue.ops[actor][i].at = "deleteEmbeddedDocuments"
    /\ fatigue' = Finally([fatigue EXCEPT
                              !.items[actor] =
                                  IF fatigue.items[actor] > fatigue.ops[actor][i].ids
                                  THEN fatigue.items[actor] - fatigue.ops[actor][i].ids
                                  ELSE 0],
                          actor, i)
    /\ UNCHANGED notFatigue

\* the creation or the deletion throws: the error is caught and the operation
\* ends
Failed(actor, i) ==
    /\ i \in 1..Len(fatigue.ops[actor])
    /\ fatigue.ops[actor][i].at \in {"createEmbeddedDocuments", "deleteEmbeddedDocuments"}
    /\ fatigue' = Finally([fatigue EXCEPT !.failed = fatigue.failed \cup {actor}],
                          actor, i)
    /\ UNCHANGED notFatigue

\* two characters without stress and without a Fatigued trait
InitFatigue ==
    /\ GraphInit /\ rebuildOnSave = TRUE /\ isGM = TRUE
    /\ RefsIdle /\ MergeIdle /\ RenderIdle /\ WarpIdle /\ RaceIdle
    /\ startup = << >> /\ dialog = << >> /\ traits = << >>
    /\ fatigue = [stress |-> [a \in Actors |-> 0],
                  items |-> [a \in Actors |-> 0],
                  inProgress |-> {},
                  ops |-> [a \in Actors |-> << >>],
                  failed |-> {}]

NextFatigue ==
    \/ \E a \in Actors : \E v \in 0..MaxStress : UpdateStress(a, v)
    \/ \E a \in Actors : \E i \in 1..2 : Recheck(a, i)
    \/ \E a \in Actors : \E i \in 1..2 : Created(a, i)
    \/ \E a \in Actors : \E i \in 1..2 : Deleted(a, i)
    \/ \E a \in Actors : \E i \in 1..2 : Failed(a, i)

SpecFatigue == InitFatigue /\ [][NextFatigue]_vars

\* at most one operation per actor is in flight, and the actor's id is in the
\* in-progress set exactly while one is
OneInFlight ==
    fatigue # << >> =>
        \A a \in Actors :
            /\ Len(fatigue.ops[a]) <= 1
            /\ a \in fatigue.inProgress <=> fatigue.ops[a] # << >>

\* C28: at most one creation or deletion per actor is in flight and the
\* actor's id is in the in-progress set exactly while one is; and when no
\* operation of an actor is in flight and none has failed, the actor has a
\* Fatigued trait if and only if its stress is at or above its maximum.
C28_FatiguedIffStressed ==
    /\ OneInFlight
    /\ fatigue # << >> =>
           \A a \in Actors :
               (fatigue.ops[a] = << >> /\ a \notin fatigue.failed) =>
                   (findFatiguedTrait(fatigue, a) <=> fatigue.stress[a] >= MaxStress)

(***************************************************************************)
(* Trait tokens: the updateItem and updateToken hooks on the GM's client,  *)
(* for one trait item of a proxy actor and the tokens that refer to it.    *)
(* The hook calls that the updates of documents raise wait in a queue.     *)
(***************************************************************************)

Tokens == {"t1", "t2"}

\* the largest quantity of the trait
MaxQuantity == 3

\* how many hook calls are followed
MaxRounds == 6

N_Fog == <<"F","o","g">>
N_Mist == <<"M","i","s","t">>

\* String(quantity), for a quantity of one digit
QuantityText(quantity) ==
    <<<<"0">>, <<"1">>, <<"2">>, <<"3">>, <<"4">>, <<"5">>, <<"6">>, <<"7">>,
      <<"8">>, <<"9">>>>[quantity + 1]

\* traitDisplayName(name, quantity)
traitDisplayName(name, quantity) ==
    IF quantity > 1 THEN Cat(<<name, <<" ">>, QuantityText(quantity)>>) ELSE name

\* the names a user types
UserNames == {N_Fog, N_Mist, Cat(<<N_Mist, <<" ">>, QuantityText(2)>>)}

\* the parts other than the trait tokens
notTraits == <<graphVars, refVars, mergeVars, renderVars, warpVars, raceVars,
               startup, dialog, fatigue>>

UpdateItemCall == [hook |-> "updateItem", token |-> NULL, name |-> << >>]

UpdateTokenCall(t, name) == [hook |-> "updateToken", token |-> t, name |-> name]

\* the tokens, in the order of scene.tokens
TokenOrder == <<"t1", "t2">>

\* the user renames a token
RenameToken(t, name) ==
    /\ ~traits.changed
    /\ name # traits.tokens[t]
    /\ traits' = [traits EXCEPT !.tokens[t] = name,
                                !.queue = <<UpdateTokenCall(t, name)>>,
                                !.changed = TRUE]
    /\ UNCHANGED notTraits

\* the user renames the trait item
RenameItem(name) ==
    /\ ~traits.changed
    /\ name # traits.item.name
    /\ traits' = [traits EXCEPT !.item.name = name,
                                !.queue = <<UpdateItemCall>>,
                                !.changed = TRUE]
    /\ UNCHANGED notTraits

\* the user changes the quantity of the trait item
SetQuantity(quantity) ==
    /\ ~traits.changed
    /\ quantity # traits.item.quantity
    /\ traits' = [traits EXCEPT !.item.quantity = quantity,
                                !.queue = <<UpdateItemCall>>,
                                !.changed = TRUE]
    /\ UNCHANGED notTraits

\* _onUpdateItem: every token whose name is not the display name of the item
\* is given it, which raises updateToken for it
OnUpdateItem ==
    /\ traits.queue # << >>
    /\ Head(traits.queue).hook = "updateItem"
    /\ traits.rounds < MaxRounds
    /\ LET newDisplayName == traitDisplayName(traits.item.name, traits.item.quantity)
           updates == SelectSeq(TokenOrder,
                                LAMBDA t : traits.tokens[t] # newDisplayName)
       IN  traits' = [traits EXCEPT
                         !.tokens = [t \in Tokens |-> newDisplayName],
                         !.queue = Tail(traits.queue)
                                     \o [i \in 1..Len(updates) |->
                                            UpdateTokenCall(updates[i], newDisplayName)],
                         !.rounds = traits.rounds + 1]
    /\ UNCHANGED notTraits

\* _onUpdateToken: an item whose name is not the token's new name is given
\* it, which raises updateItem
OnUpdateToken ==
    /\ traits.queue # << >>
    /\ Head(traits.queue).hook = "updateToken"
    /\ traits.rounds < MaxRounds
    /\ LET newName == Head(traits.queue).name
       IN  traits' = IF traits.item.name # newName
                     THEN [traits EXCEPT !.item.name = newName,
                                         !.queue = Append(Tail(traits.queue), UpdateItemCall),
                                         !.rounds = traits.rounds + 1]
                     ELSE [traits EXCEPT !.queue = Tail(traits.queue),
                                         !.rounds = traits.rounds + 1]
    /\ UNCHANGED notTraits

\* a trait item and its tokens as the drop on the canvas made them
InitTraits ==
    /\ GraphInit /\ rebuildOnSave = TRUE /\ isGM = TRUE
    /\ RefsIdle /\ MergeIdle /\ RenderIdle /\ WarpIdle /\ RaceIdle
    /\ startup = << >> /\ dialog = << >> /\ fatigue = << >>
    /\ \E name \in {N_Fog, N_Mist} : \E quantity \in 1..MaxQuantity :
           traits = [item |-> [name |-> name, quantity |-> quantity],
                     tokens |-> [t \in Tokens |-> traitDisplayName(name, quantity)],
                     queue |-> << >>, rounds |-> 0, changed |-> FALSE]

NextTraits ==
    \/ \E t \in Tokens : \E name \in UserNames : RenameToken(t, name)
    \/ \E name \in UserNames : RenameItem(name)
    \/ \E quantity \in 1..MaxQuantity : SetQuantity(quantity)
    \/ OnUpdateItem
    \/ OnUpdateToken

SpecTraits == InitTraits /\ [][NextTraits]_vars

\* a hook call that is raised is run
SpecTraitsFair ==
    SpecTraits /\ WF_vars(OnUpdateItem) /\ WF_vars(OnUpdateToken)

\* no hook call waits, and every token has the display name of the item
Synced ==
    /\ traits.queue = << >>
    /\ \A t \in Tokens :
           traits.tokens[t] = traitDisplayName(traits.item.name, traits.item.quantity)

\* the hook calls are still going when MaxRounds of them were followed
StillGoing == traits.rounds = MaxRounds /\ traits.queue # << >>

\* C29: after one rename of a token or one change of the item's name or
\* quantity, whatever the quantity, the hook calls come to an end with every
\* token named traitDisplayName(item.name, item.quantity), unless they are
\* still going after MaxRounds calls.
C29_SyncTerminates ==
    (traits # << >> /\ traits.changed)
        ~> (traits # << >> /\ (Synced \/ StillGoing))

====
